---- MODULE Spec2Model ----
(***************************************************************************)
(* Model of the dual-connection transfer engine of basic-ftp-socks:        *)
(*   - src/src/transfer.ts    enterPassiveModeIPv4/IPv6 and their parsers, *)
(*                            connectForPassiveTransfer, TransferResolver, *)
(*                            uploadFrom, downloadTo, uploadBySocksProxy   *)
(*   - src/src/proxySocket.ts ProxySocket (SOCKS5 tunnel)                  *)
(* The specifications of the module: Spec (one transfer task on an FTP     *)
(* context), TunnelSpec (one ProxySocket talking to a proxy), PasvSpec     *)
(* (one reply to PASV or EPSV), ReqSpec (one CONNECT request) and          *)
(* DconnSpec (one call of connectForPassiveTransfer), LaterSpec (two       *)
(* transfers one after the other on the same context), FairSpec (Spec      *)
(* with the pipeline sure to call back once the data socket was ended),    *)
(* and HandshakeSpec (one ProxySocket, the events of its realSocket and a  *)
(* consumer that calls connect and read).                                  *)
(***************************************************************************)
EXTENDS Integers, Sequences, FiniteSets, TLC

\* one transfer task on an FTP context
VARIABLES cfg, ftp, resolver, task, hist, up, env
\* one ProxySocket, the proxy at the other end, and what the consumer sees
VARIABLES sock, net, obs
\* one passive-mode reply being parsed (enterPassiveModeIPv4/IPv6), one
\* CONNECT request being encoded (sendConnect), and one call of
\* connectForPassiveTransfer
VARIABLES pasv, req, dconn
\* the transfer the context ran before the current one: its resolver, its
\* task and its pipeline, which may still call back
VARIABLES prev

xferVars == <<cfg, ftp, resolver, task, hist, up, env>>

tunnelVars == <<sock, net, obs>>

auxVars == <<pasv, req, dconn, prev>>

vars == <<cfg, ftp, resolver, task, hist, up, env, sock, net, obs, pasv, req, dconn,
          prev>>

(***************************************************************************)
(* Bounds of the model.                                                    *)
(***************************************************************************)
\* largest number of bytes of an upload source / of a SIZE answer
MaxBytes == 2
\* largest number of control-channel events (replies or errors) of one task
MaxCtl == 3
\* the configured idle timeout T (ftp.timeout) when it is not disabled
TimeoutMs == 5

(***************************************************************************)
(* Values.                                                                 *)
(***************************************************************************)
\* `undefined` for TransferResolver.response; a response is <<code>>
Undefined == <<>>

\* FTPResponse with the given code (the message plays no role in transfer.ts)
Response(code) == <<code>>

\* reply codes the server may send while the task is active
ReplyCodes == {120, 125, 150, 226, 250, 332, 350}

\* errors the stream pipeline can hand to its callback
PipelineErrors == {"ECONNRESET", "EPIPE"}

\* a call of task.resolve / task.reject, in the order made
Resolve(r) == [op |-> "resolve", res |-> r, err |-> ""]

Reject(e) == [op |-> "reject", res |-> Undefined, err |-> e]

\* parseControlResponse.positiveCompletion: 2xx
positiveCompletion(code) == code >= 200 /\ code < 300

\* parseControlResponse.positiveIntermediate: 3xx
positiveIntermediate(code) == code >= 300 /\ code < 400

\* The state the resolver's methods read and write, as one record.
State == [ftp |-> ftp, resolver |-> resolver, task |-> task, hist |-> hist, up |-> up]

\* FtpContext routes a response or error to the handler of the ACTIVE task
\* only; a task that has called resolve or reject is removed.
TaskActive == task = <<>>

(***************************************************************************)
(* class TransferResolver                                                  *)
(***************************************************************************)
\* mutant of tryResolve: resolves as soon as either side is done
tryResolveEither(s) ==
    IF s.resolver.dataTransferDone \/ s.resolver.response # Undefined
    THEN [s EXCEPT !.ftp.dataSocket = FALSE,
                   !.task = Append(@, Resolve(s.resolver.response))]
    ELSE s

\* mutant of tryResolve: resolves with a response of its own making
tryResolveOther(s) ==
    IF s.resolver.dataTransferDone /\ s.resolver.response # Undefined
    THEN [s EXCEPT !.ftp.dataSocket = FALSE,
                   !.task = Append(@, Resolve(Response(200)))]
    ELSE s

\* hist.held records whether ftp.dataSocket was still defined at the call
\* of task.resolve
tryResolve(s) ==
    LET canResolve == s.resolver.dataTransferDone /\ s.resolver.response # Undefined
    IN  IF canResolve
        THEN LET c == [s EXCEPT !.ftp.dataSocket = FALSE]
             IN  [c EXCEPT !.task = Append(@, Resolve(s.resolver.response)),
                           !.hist.held = @ \/ c.ftp.dataSocket]
        ELSE s

\* onDataStart; the caller has checked that ftp.dataSocket is defined
onDataStart(s) ==
    [s EXCEPT !.ftp.socketTimeout = 0,
              !.ftp.dataTimeout = cfg.timeout,
              !.hist.nDataStart = @ + 1,
              !.hist.last = "start"]

onDataDone(s) ==
    tryResolve([s EXCEPT !.ftp.socketTimeout = cfg.timeout,
                         !.ftp.dataTimeout = IF s.ftp.dataSocket THEN 0 ELSE @,
                         !.resolver.dataTransferDone = TRUE,
                         !.hist.nDataDone = @ + 1,
                         !.hist.last = "done",
                         !.hist.first = IF @ = "none" THEN "data" ELSE @])

onControlDone(s, response) ==
    tryResolve([s EXCEPT !.resolver.response = response,
                         !.hist.nControlDone = @ + 1,
                         !.hist.lastControl = response,
                         !.hist.first = IF @ = "none" THEN "control" ELSE @])

\* mutant of onError: the data socket reference is kept
onErrorKeepsSocket(s, err) ==
    LET c == [s EXCEPT !.ftp.socketTimeout = cfg.timeout]
    IN  [c EXCEPT !.task = Append(@, Reject(err)),
                  !.hist.held = @ \/ c.ftp.dataSocket,
                  !.hist.nError = @ + 1,
                  !.hist.last = "error"]

\* hist.held records whether ftp.dataSocket was still defined at the call
\* of task.reject
onError(s, err) ==
    LET c == [s EXCEPT !.ftp.socketTimeout = cfg.timeout,
                       !.ftp.dataSocket = FALSE]
    IN  [c EXCEPT !.task = Append(@, Reject(err)),
                  !.hist.held = @ \/ c.ftp.dataSocket,
                  !.hist.nError = @ + 1,
                  !.hist.last = "error"]

\* FtpContext.closeWithError: closes the sockets and hands the error to the
\* handler of the active task, which is the transfer handler's onError branch.
closeWithError(s, err) ==
    onError([s EXCEPT !.ftp.closed = TRUE], err)

\* mutant of onUnexpectedRequest: the reply is recorded as the response
onUnexpectedRequestRecords(s) ==
    tryResolve([s EXCEPT !.hist.nUnexpected = @ + 1,
                         !.resolver.response = Response(300)])

onUnexpectedRequest(s) ==
    closeWithError([s EXCEPT !.hist.nUnexpected = @ + 1], "EUNEXPECTED")

\* write the record back to the variables
Apply(s) ==
    /\ ftp' = s.ftp
    /\ resolver' = s.resolver
    /\ task' = s.task
    /\ hist' = s.hist
    /\ up' = s.up

(***************************************************************************)
(* uploadBySocksProxy: the pass-through counter and the size probe         *)
(***************************************************************************)
\* mutant of checkRemoteSizeDone: the data socket is ended only when the
\* sizes match
checkRemoteSizeDoneEndOnMatch(s, serverFileSize, outcome) ==
    [s EXCEPT !.up.probe = "done",
              !.up.outcome = outcome,
              !.up.serverFileSize = serverFileSize,
              !.up.client = "closed",
              !.up.remoteSizeAlright =
                  IF serverFileSize = s.up.translength THEN TRUE ELSE @,
              !.up.endCalls =
                  IF serverFileSize = s.up.translength THEN @ + 1 ELSE @]

\* mutant of checkRemoteSizeDone: the data socket is never ended
checkRemoteSizeDoneNoEnd(s, serverFileSize, outcome) ==
    [s EXCEPT !.up.probe = "done",
              !.up.outcome = outcome,
              !.up.serverFileSize = serverFileSize,
              !.up.client = "closed",
              !.up.remoteSizeAlright =
                  IF serverFileSize = s.up.translength THEN TRUE ELSE @]

\* checkRemoteSize from the end of its try/catch: client.close(), the
\* comparison, and dataSocket.end() in both branches
checkRemoteSizeDone(s, serverFileSize, outcome) ==
    [s EXCEPT !.up.probe = "done",
              !.up.outcome = outcome,
              !.up.serverFileSize = serverFileSize,
              !.up.client = "closed",
              !.up.remoteSizeAlright =
                  IF serverFileSize = s.up.translength THEN TRUE ELSE @,
              !.up.endCalls = @ + 1]

\* uploadBySocksProxy up to the pipeline() call
uploadBySocksProxy(s) ==
    [s EXCEPT !.up.remoteSizeAlright = FALSE,
              !.up.kind = "socks",
              !.up.pipe = "running"]

\* mutant of socksCallback: ECONNRESET is passed without looking at the flag
socksCallbackNoFlag(s, err) ==
    IF err # ""
    THEN IF err = "ECONNRESET" THEN onDataDone(s) ELSE onError(s, err)
    ELSE onDataDone(s)

\* mutant of socksCallback: no data-channel error is passed
socksCallbackStrict(s, err) ==
    IF err # "" THEN onError(s, err) ELSE onDataDone(s)

\* mutant of socksCallback: ECONNRESET is dropped
socksCallbackResetIgnored(s, err) ==
    IF err # ""
    THEN IF err = "ECONNRESET" THEN s ELSE onError(s, err)
    ELSE onDataDone(s)

\* the callback uploadFrom gives uploadBySocksProxy; err = "" is no error
socksCallback(s, err) ==
    IF err # ""
    THEN IF err = "ECONNRESET" /\ s.up.remoteSizeAlright
         THEN onDataDone(s)
         ELSE onError(s, err)
    ELSE onDataDone(s)

\* the callback of pipeline(source, dataSocket) and pipeline(dataSocket,
\* destination)
plainCallback(s, err) ==
    IF err # "" THEN onError(s, err) ELSE onDataDone(s)

(***************************************************************************)
(* uploadFrom / downloadTo: the task's response handler                    *)
(***************************************************************************)
\* mutant of startUpload: every upload goes through uploadBySocksProxy
startUploadAlwaysSocks(s) ==
    IF ~s.ftp.dataSocket
    THEN [s EXCEPT !.up.pipe = "threw"]
    ELSE uploadBySocksProxy(onDataStart(s))

\* the action uploadFrom runs at once or on 'secureConnect'
startUpload(s) ==
    IF ~s.ftp.dataSocket
    THEN \* onDataStart throws: nothing is piped
         [s EXCEPT !.up.pipe = "threw"]
    ELSE LET started == onDataStart(s)
         IN  IF cfg.useSocksProxy
             THEN uploadBySocksProxy(started)
             ELSE [started EXCEPT !.up.kind = "plain", !.up.pipe = "running"]

\* mutant of uploadHandler: the upload starts without looking at the TLS
\* handshake
uploadHandlerNoWait(s, res) ==
    IF res.isError THEN onError(s, res.err)
    ELSE IF res.code = 150 \/ res.code = 125
    THEN IF ~s.ftp.dataSocket
         THEN onError(s, "ENODATA")
         ELSE startUpload([s EXCEPT !.hist.readyTls = s.ftp.tls])
    ELSE IF positiveCompletion(res.code) THEN onControlDone(s, Response(res.code))
    ELSE IF positiveIntermediate(res.code) THEN onUnexpectedRequest(s)
    ELSE s

\* res is [isError, code, err]; hist.readyTls records the state of the data
\* socket's TLS handshake when the 150/125 reply was handled
uploadHandler(s, res) ==
    IF res.isError THEN onError(s, res.err)
    ELSE IF res.code = 150 \/ res.code = 125
    THEN IF ~s.ftp.dataSocket
         THEN onError(s, "ENODATA")
         ELSE LET canUpload == s.ftp.tls # "handshaking"
                  r == [s EXCEPT !.hist.readyTls = s.ftp.tls]
              IN  IF canUpload THEN startUpload(r)
                  ELSE [r EXCEPT !.up.pipe = "waitSecure"]
    ELSE IF positiveCompletion(res.code) THEN onControlDone(s, Response(res.code))
    ELSE IF positiveIntermediate(res.code) THEN onUnexpectedRequest(s)
    ELSE s

\* mutant of downloadHandler: no branch for the 350 reply
downloadHandlerNo350(s, res) ==
    IF res.isError THEN onError(s, res.err)
    ELSE IF res.code = 150 \/ res.code = 125
    THEN IF ~s.ftp.dataSocket
         THEN onError(s, "ENODATA")
         ELSE [onDataStart(s) EXCEPT !.up.kind = "plain", !.up.pipe = "running"]
    ELSE IF positiveCompletion(res.code) THEN onControlDone(s, Response(res.code))
    ELSE IF positiveIntermediate(res.code) THEN onUnexpectedRequest(s)
    ELSE s

\* mutant of downloadHandler: RETR is sent for every 3xx reply
downloadHandlerAny3xx(s, res) ==
    IF res.isError THEN onError(s, res.err)
    ELSE IF res.code = 150 \/ res.code = 125
    THEN IF ~s.ftp.dataSocket
         THEN onError(s, "ENODATA")
         ELSE [onDataStart(s) EXCEPT !.up.kind = "plain", !.up.pipe = "running"]
    ELSE IF positiveIntermediate(res.code)
    THEN [s EXCEPT !.ftp.sent = Append(@, "RETR")]
    ELSE IF positiveCompletion(res.code) THEN onControlDone(s, Response(res.code))
    ELSE s

downloadHandler(s, res) ==
    IF res.isError THEN onError(s, res.err)
    ELSE IF res.code = 150 \/ res.code = 125
    THEN IF ~s.ftp.dataSocket
         THEN onError(s, "ENODATA")
         ELSE [onDataStart(s) EXCEPT !.up.kind = "plain", !.up.pipe = "running"]
    ELSE IF res.code = 350
    THEN [s EXCEPT !.ftp.sent = Append(@, "RETR")]
    ELSE IF positiveCompletion(res.code) THEN onControlDone(s, Response(res.code))
    ELSE IF positiveIntermediate(res.code) THEN onUnexpectedRequest(s)
    ELSE s

(***************************************************************************)
(* One transfer task: initial state and steps                              *)
(***************************************************************************)
\* the transfers the model runs: direction, proxy option, idle timeout,
\* first command, and (for the pass-through counter) the source's length
Configs ==
    { c \in [type : {"upload", "download"}, useSocksProxy : BOOLEAN,
              timeout : {0, TimeoutMs}, command : {"STOR", "RETR", "REST"},
              srcTotal : 0 .. MaxBytes] :
        /\ (c.type = "upload") = (c.command = "STOR")
        /\ (c.srcTotal # 0) => (c.type = "upload" /\ c.useSocksProxy) }

\* new TransferResolver(ftp, tracker)
NewResolver == [response |-> Undefined, dataTransferDone |-> FALSE]

\* what has been observed of a transfer that has just been started: nothing
NewHist ==
    [nDataStart |-> 0, nDataDone |-> 0, nControlDone |-> 0, nError |-> 0,
     nUnexpected |-> 0, lastControl |-> Undefined, first |-> "none",
     last |-> "none", held |-> FALSE, readyTls |-> "none"]

\* no pipeline and no probe yet
NewUp ==
    [kind |-> "none", pipe |-> "none", cb |-> "pending", cbProbe |-> "none",
     cbFlag |-> FALSE,
     translength |-> 0, written |-> 0, probe |-> "none", outcome |-> "none",
     serverFileSize |-> 0, remoteSizeAlright |-> FALSE, endCalls |-> 0,
     client |-> "none"]

\* nothing delivered on the control channel yet
NewEnv == [nCtl |-> 0, ready |-> FALSE, n350 |-> 0, n3xx |-> 0]

\* State when ftp.handle(command, handler) has sent the command: the
\* resolver is fresh, the data socket is the one connectForPassiveTransfer
\* installed (both sockets with timeout T), or is missing
XferInit ==
    /\ cfg \in Configs
    /\ \E ds \in BOOLEAN, tls \in {"plain", "handshaking", "secure"} :
          /\ (cfg.type = "download") => ds
          /\ (~ds) => tls = "plain"
          /\ ftp = [socketTimeout |-> cfg.timeout, dataSocket |-> ds,
                    dataTimeout |-> cfg.timeout, tls |-> tls, closed |-> FALSE,
                    sent |-> <<cfg.command>>]
    /\ resolver = NewResolver
    /\ task = <<>>
    /\ hist = NewHist
    /\ up = NewUp
    /\ env = NewEnv

\* what the control channel can hand to the handler
Replies == [isError : {FALSE}, code : ReplyCodes, err : {""}]

ControlErrors == [isError : {TRUE}, code : {0}, err : {"ECTRL"}]

\* the server marks the start of the data transfer (150/125) once per command
Deliverable(res) ==
    res.isError \/ ~(res.code \in {125, 150}) \/ ~env.ready

\* env counts what the control channel has delivered: all events, the
\* 350 replies, and the other 3xx replies
CountCtl(res) ==
    env' = [nCtl |-> env.nCtl + 1,
            ready |-> env.ready \/ (~res.isError /\ res.code \in {125, 150}),
            n350 |-> env.n350 + (IF ~res.isError /\ res.code = 350 THEN 1 ELSE 0),
            n3xx |-> env.n3xx + (IF ~res.isError /\ res.code # 350
                                     /\ positiveIntermediate(res.code) THEN 1 ELSE 0)]

\* the control channel delivers a reply or an error to the upload's handler
UploadHandle ==
    /\ cfg.type = "upload"
    /\ TaskActive /\ ~ftp.closed /\ env.nCtl < MaxCtl
    /\ \E res \in Replies \cup ControlErrors :
          /\ Deliverable(res)
          /\ Apply(uploadHandler(State, res))
          /\ CountCtl(res)
    /\ UNCHANGED <<cfg, tunnelVars, auxVars>>

\* the control channel delivers a reply or an error to the download's handler
DownloadHandle ==
    /\ cfg.type = "download"
    /\ TaskActive /\ ~ftp.closed /\ env.nCtl < MaxCtl
    /\ \E res \in Replies \cup ControlErrors :
          /\ Deliverable(res)
          /\ Apply(downloadHandler(State, res))
          /\ CountCtl(res)
    /\ UNCHANGED <<cfg, tunnelVars, auxVars>>

\* the TLS data socket emits 'secureConnect'; a waiting upload starts
SecureConnect ==
    /\ ftp.tls = "handshaking"
    /\ LET s == [State EXCEPT !.ftp.tls = "secure"]
       IN  Apply(IF up.pipe = "waitSecure" THEN startUpload(s) ELSE s)
    /\ UNCHANGED <<cfg, env, tunnelVars, auxVars>>

\* pipeline(source, dataSocket) / pipeline(dataSocket, destination) calls back
PlainPipelineDone ==
    /\ up.pipe = "running" /\ up.kind = "plain"
    /\ \E err \in PipelineErrors \cup {""} :
          Apply(plainCallback([State EXCEPT !.up.pipe = "done",
                                            !.up.cb = err], err))
    /\ UNCHANGED <<cfg, env, tunnelVars, auxVars>>

\* pipeline(source, passThrough, dataSocket) calls back
SocksPipelineDone ==
    /\ up.pipe = "running" /\ up.kind = "socks"
    /\ \E err \in PipelineErrors \cup {""} :
          Apply(socksCallback([State EXCEPT !.up.pipe = "done",
                                            !.up.cb = err,
                                            !.up.cbProbe = up.probe,
                                            !.up.cbFlag = up.remoteSizeAlright], err))
    /\ UNCHANGED <<cfg, env, tunnelVars, auxVars>>

\* CustomPassThrough.write: the source hands one more byte to the counter
PassThroughWrite ==
    /\ up.pipe = "running" /\ up.kind = "socks"
    /\ up.probe = "none" /\ up.translength < cfg.srcTotal
    /\ up' = [up EXCEPT !.translength = @ + 1]
    /\ UNCHANGED <<cfg, ftp, resolver, task, hist, env, tunnelVars, auxVars>>

\* the pass-through's readable side hands a counted byte to the data socket
PassThroughForward ==
    /\ up.pipe = "running" /\ up.kind = "socks"
    /\ up.written < up.translength
    /\ up' = [up EXCEPT !.written = @ + 1]
    /\ UNCHANGED <<cfg, ftp, resolver, task, hist, env, tunnelVars, auxVars>>

\* CustomPassThrough.end: the source has ended; checkRemoteSize starts and
\* awaits client.access
PassThroughEnd ==
    /\ up.pipe = "running" /\ up.kind = "socks"
    /\ up.probe = "none" /\ up.translength = cfg.srcTotal
    /\ up' = [up EXCEPT !.probe = "access", !.client = "open"]
    /\ UNCHANGED <<cfg, ftp, resolver, task, hist, env, tunnelVars, auxVars>>

\* client.access of the probe returns or throws
ProbeAccess ==
    /\ up.probe = "access"
    /\ \/ up' = [up EXCEPT !.probe = "size"]
       \/ up' = checkRemoteSizeDone(State, 0, "accessFailed").up
    /\ UNCHANGED <<cfg, ftp, resolver, task, hist, env, tunnelVars, auxVars>>

\* client.size of the probe returns a size or throws
ProbeSize ==
    /\ up.probe = "size"
    /\ \/ \E n \in 0 .. MaxBytes : up' = checkRemoteSizeDone(State, n, "reported").up
       \/ up' = checkRemoteSizeDone(State, 0, "sizeFailed").up
    /\ UNCHANGED <<cfg, ftp, resolver, task, hist, env, tunnelVars, auxVars>>

\* The task has been settled while its pipeline is still running, and the
\* caller starts the next transfer on the same context:
\* connectForPassiveTransfer installs the new data socket, and uploadFrom /
\* downloadTo make a new resolver and hand the command to ftp.handle.  The
\* earlier transfer's resolver, task and pipeline are kept in prev.
StartLater ==
    /\ ~prev.active
    /\ task # <<>> /\ up.pipe = "running" /\ ~ftp.closed
    /\ prev' = [active |-> TRUE, resolver |-> resolver, task |-> task,
                hist |-> hist, up |-> up]
    /\ ftp' = [ftp EXCEPT !.dataSocket = TRUE,
                          !.dataTimeout = cfg.timeout,
                          !.sent = <<cfg.command>>]
    /\ resolver' = NewResolver
    /\ task' = <<>>
    /\ hist' = NewHist
    /\ up' = NewUp
    /\ env' = NewEnv
    /\ UNCHANGED <<cfg, tunnelVars, pasv, req, dconn>>

\* the pipeline of the earlier transfer calls back: the callback runs on
\* that transfer's resolver and task, and on the context both share
LatePipelineDone ==
    /\ prev.active /\ prev.up.pipe = "running"
    /\ \E err \in PipelineErrors \cup {""} :
          LET s == [ftp |-> ftp, resolver |-> prev.resolver, task |-> prev.task,
                    hist |-> prev.hist,
                    up |-> [prev.up EXCEPT !.pipe = "done", !.cb = err]]
              r == plainCallback(s, err)
          IN  /\ ftp' = r.ftp
              /\ prev' = [prev EXCEPT !.resolver = r.resolver, !.task = r.task,
                                      !.hist = r.hist, !.up = r.up]
    /\ UNCHANGED <<cfg, resolver, task, hist, up, env, tunnelVars, pasv, req, dconn>>

\* no earlier transfer yet
PrevInit ==
    prev = [active |-> FALSE, resolver |-> NewResolver, task |-> <<>>,
            hist |-> NewHist, up |-> NewUp]

LaterNext ==
    \/ UploadHandle
    \/ DownloadHandle
    \/ SecureConnect
    \/ PlainPipelineDone
    \/ StartLater
    \/ LatePipelineDone

XferNext ==
    \/ UploadHandle
    \/ DownloadHandle
    \/ SecureConnect
    \/ PlainPipelineDone
    \/ SocksPipelineDone
    \/ PassThroughWrite
    \/ PassThroughForward
    \/ PassThroughEnd
    \/ ProbeAccess
    \/ ProbeSize

(***************************************************************************)
(* class ProxySocket (src/src/proxySocket.ts)                              *)
(*                                                                         *)
(* sock: the ProxySocket's fields and its realSocket (rstate, rended, the  *)
(*       items written to it in `out`, the sinks piped from it);           *)
(* net:  the proxy: the bytes it has sent that no 'data' event has         *)
(*       delivered yet, each tagged with what the proxy meant it to be     *)
(*       ("g" greeting reply, "c" CONNECT reply, "p" payload); causal      *)
(*       says that it has only answered what the tunnel had sent, and      *)
(*       sent lists the replies it has sent;                               *)
(* obs:  what the consumer of the tunnel has done and seen.                *)
(***************************************************************************)
\* largest number of write() calls of the consumer
MaxWrites == 2
\* largest number of payload bytes the proxy sends
MaxPayload == 1
\* largest number of CONNECT replies the proxy sends
MaxReplies == 1
\* number of bytes modelled of a CONNECT reply's ATYP ADDR PORT, which
\* receiveSocksConnect never reads
ReplyTailLen == 1
\* bound: how many times the consumer calls pipe
MaxPipes == 2
\* bound: how many times the consumer calls connect
MaxConnects == 2

\* the i-th byte the consumer writes: 97, 98, ... (all different, so that
\* a reordering shows)
WriteByte(i) == 96 + i

\* the i-th payload byte the proxy sends: 05 00 00 ..., a payload that
\* starts like a CONNECT reply
PayloadByte(i) == IF i = 1 THEN 5 ELSE 0

\* the greeting the tunnel sends, and the replies a proxy may give to it
Greeting == <<5, 1, 0>>

GreetingReplies == {<<5, 0>>, <<5, 255>>}

ReplyTail == [i \in 1 .. ReplyTailLen |-> IF i = 1 THEN 1 ELSE 0]

\* CONNECT replies: granted, refused (code 05), wrong version, RSV not 00
ConnectReplies ==
    { <<5, 0, 0>> \o ReplyTail, <<5, 5, 0>> \o ReplyTail,
      <<4, 0, 0>> \o ReplyTail, <<5, 0, 1>> \o ReplyTail }

Tagged(bytes, kind) == [i \in 1 .. Len(bytes) |-> [b |-> bytes[i], k |-> kind]]

Untag(items) == [i \in 1 .. Len(items) |-> items[i].b]

\* data[i] of a Buffer, 0-based; reading past the end gives undefined (-1)
At(data, i) == IF i + 1 <= Len(data) THEN data[i + 1] ELSE -1

\* The state the ProxySocket's methods read and write; exc is set when the
\* method has thrown.
Tunnel == [sock |-> sock, obs |-> obs, exc |-> FALSE]

\* realSocket.write: a write after end() is refused (it returns false and
\* the socket reports an error, which the tunnel re-emits)
realWrite(t, kind, bytes) ==
    IF t.sock.rended
    THEN [t EXCEPT !.obs.errors = Append(@, "write after end")]
    ELSE [t EXCEPT !.sock.out = Append(@, [k |-> kind, bytes |-> bytes])]

\* mutant of write: nothing is queued
writeUnqueued(t, str) == realWrite(t, "data", str)

write(t, str) ==
    IF ~t.sock.connected
    THEN [t EXCEPT !.sock.unSent = Append(@, str)]
    ELSE realWrite(t, "data", str)

pipe(t, dest) ==
    IF t.sock.connected
    THEN [t EXCEPT !.sock.rpiped = Append(@, dest)]
    ELSE [t EXCEPT !.sock.unPiped = Append(@, dest)]

\* end(data): before Established the argument is dropped
end(t, data) ==
    LET w == [t EXCEPT !.sock.writable = FALSE]
    IN  IF ~w.sock.connected
        THEN [w EXCEPT !.sock.rended = TRUE]
        ELSE [(IF data # <<>> THEN realWrite(w, "data", data) ELSE w)
                 EXCEPT !.sock.rended = TRUE]

sendAuth(t) ==
    IF t.sock.rended
    THEN [realWrite(t, "greeting", Greeting) EXCEPT !.exc = TRUE]
    ELSE realWrite(t, "greeting", Greeting)

\* sendConnect in the tunnel: the item written is the CONNECT request, of
\* which the tunnel model keeps the first three bytes (connectRequest gives
\* all of them for a host and a port)
sendConnect(t) ==
    IF t.sock.rended
    THEN [realWrite(t, "connect", <<5, 1, 0>>) EXCEPT !.exc = TRUE]
    ELSE realWrite(t, "connect", <<5, 1, 0>>)

receiveSocksAuth(t, data) ==
    LET error == \/ Len(data) # 2
                 \/ At(data, 0) # 5
                 \/ At(data, 1) # 0
    IN  IF error
        THEN [t EXCEPT !.obs.errors = Append(@, "auth"),
                       !.obs.negErrors = @ + 1]
        ELSE sendConnect(t)

\* emit(e) of an event the consumer listens to; obs.events records the
\* event and whether connected was set when it was emitted
emit(t, e) ==
    [t EXCEPT !.obs.events = @ \cup {[e |-> e, est |-> t.sock.connected]}]

\* the while loops of receiveSocksConnect; obs.flushed records the calls
\* receiveSocksConnect makes after it has set connected, in their order
RECURSIVE flushUnSent(_)
flushUnSent(t) ==
    IF t.sock.unSent = <<>> THEN t
    ELSE LET str == Head(t.sock.unSent)
             w == write([t EXCEPT !.sock.unSent = Tail(@)], str)
         IN  flushUnSent([w EXCEPT !.obs.flushed =
                                       Append(@, [k |-> "write", v |-> str])])

RECURSIVE flushUnPiped(_)
flushUnPiped(t) ==
    IF t.sock.unPiped = <<>> THEN t
    ELSE LET dest == Head(t.sock.unPiped)
             p == pipe([t EXCEPT !.sock.unPiped = Tail(@)], dest)
         IN  flushUnPiped([p EXCEPT !.obs.flushed =
                                        Append(@, [k |-> "pipe", v |-> <<dest>>])])

\* mutant of receiveSocksConnect: the pipes are attached before the writes
\* are flushed
receiveSocksConnectPipesFirst(t, data) ==
    LET socksVersion == At(data, 0)
        responseCode == At(data, 1)
        reserved == At(data, 2)
        error == socksVersion # 5 \/ responseCode # 0 \/ reserved # 0
    IN  IF error
        THEN [t EXCEPT !.obs.errors = Append(@, "connect"),
                       !.obs.negErrors = @ + 1]
        ELSE LET c == [t EXCEPT !.sock.connected = TRUE]
                 f == flushUnSent(flushUnPiped(c))
             IN  [emit(f, "connect") EXCEPT !.obs.connects = @ + 1,
                           !.obs.flushed = Append(@, [k |-> "connect", v |-> <<>>])]

receiveSocksConnect(t, data) ==
    LET socksVersion == At(data, 0)
        responseCode == At(data, 1)
        reserved == At(data, 2)
        error == socksVersion # 5 \/ responseCode # 0 \/ reserved # 0
    IN  IF error
        THEN [t EXCEPT !.obs.errors = Append(@, "connect"),
                       !.obs.negErrors = @ + 1]
        ELSE LET c == [t EXCEPT !.sock.connected = TRUE]
                 f == flushUnPiped(flushUnSent(c))
             IN  [emit(f, "connect") EXCEPT !.obs.connects = @ + 1,
                           !.obs.flushed = Append(@, [k |-> "connect", v |-> <<>>])]

\* emit('data', data): data is a sequence of tagged bytes
emitData(t, data) == [emit(t, "data") EXCEPT !.obs.data = @ \o data]

\* data is the chunk as tagged bytes
receiveSocksConnectData(t, data) ==
    LET r == IF t.sock.connectStage = 0
             THEN LET a == receiveSocksAuth(t, Untag(data))
                  IN  IF a.exc THEN a
                      ELSE [a EXCEPT !.sock.connectStage = @ + 1]
             ELSE receiveSocksConnect(t, Untag(data))
    IN  IF ~r.exc /\ r.sock.connected THEN emitData(r, data) ELSE r

\* the realSocket 'data' handler of the constructor
onRealData(t, data) ==
    IF t.sock.connected
    THEN emitData(t, data)
    ELSE receiveSocksConnectData(
             [t EXCEPT !.obs.rx =
                  IF Len(@) > 2 THEN @
                  ELSE Append(@, [bytes |-> Untag(data),
                                  requested |-> \E i \in 1 .. Len(t.sock.out) :
                                                    t.sock.out[i].k = "connect"])],
             data)

\* mutant of onRealDrain: 'drain' is passed on whatever connected says
onRealDrainAlways(t) ==
    emit([t EXCEPT !.obs.early =
              IF t.sock.connected THEN @ ELSE @ \cup {"drain"}], "drain")

\* the realSocket 'drain' handler of the constructor; obs.early records
\* the events realSocket emitted while connected was not set
onRealDrain(t) ==
    LET h == [t EXCEPT !.obs.early =
                  IF t.sock.connected THEN @ ELSE @ \cup {"drain"}]
    IN  IF h.sock.connected THEN emit(h, "drain") ELSE h

\* the realSocket 'readable' handler of the constructor: realSocket.read()
\* returns what has arrived (avail, tagged bytes) and, when that is not
\* null, makes realSocket emit 'data' with it before it returns
onRealReadable(t, avail) ==
    LET h == [t EXCEPT !.obs.early =
                  IF t.sock.connected THEN @ ELSE @ \cup {"readable"}]
        r == IF avail = <<>> THEN h ELSE onRealData(h, avail)
    IN  IF r.exc THEN r
        ELSE IF r.sock.connected THEN emit(r, "readable") ELSE r

\* read(): obs.reads records whether connected was set and what the call
\* returned; realSocket.read emits 'data' with what it returns
read(t, avail) ==
    IF ~t.sock.connected
    THEN [t EXCEPT !.obs.reads = @ \cup {[est |-> FALSE, ret |-> "null"]}]
    ELSE LET r == IF avail = <<>> THEN t ELSE onRealData(t, avail)
         IN  [r EXCEPT !.obs.reads =
                  @ \cup {[est |-> TRUE,
                           ret |-> IF avail = <<>> THEN "null" ELSE "data"]}]

\* realSocket.connect(socksPort, socksHost, callback).  On a socket whose
\* connection is open the call is outside what net.Socket defines: the
\* build either starts the connection anew ("again") or reports an error
\* and closes the socket ("error").
realConnect(t, outcome) ==
    LET c == [t EXCEPT !.sock.rconnects = @ + 1]
    IN  IF t.sock.rstate = "open" /\ outcome = "error"
        THEN [c EXCEPT !.sock.rstate = "failed",
                       !.obs.errors = Append(@, "real")]
        ELSE [c EXCEPT !.sock.rstate = "connecting"]

\* connect(port, host)
connect(t, outcome) ==
    IF t.sock.connected \/ t.sock.connecting
    THEN [t EXCEPT !.exc = TRUE]
    ELSE realConnect([t EXCEPT !.sock.connected = FALSE,
                               !.sock.connecting = TRUE], outcome)

\* how far the connect() call before this one has got: its TCP connection
\* is not open yet, the SOCKS handshake runs, the tunnel is Established,
\* or the negotiation is over without it
Phase(t) ==
    IF t.sock.connected THEN "established"
    ELSE IF t.sock.connecting /\ t.sock.rstate = "connecting" THEN "tcp"
    ELSE IF t.sock.rstate = "open" /\ t.obs.negErrors = 0 /\ ~t.sock.rended
         THEN "handshake"
    ELSE "over"

ApplyTunnel(t) ==
    /\ sock' = t.sock
    /\ obs' = [t.obs EXCEPT !.threw = @ \/ t.exc]

TunnelInit ==
    /\ sock = [connecting |-> FALSE, connected |-> FALSE, connectStage |-> 0,
               unSent |-> <<>>, unPiped |-> <<>>, writable |-> TRUE,
               rstate |-> "idle", rended |-> FALSE, out |-> <<>>, rpiped |-> <<>>,
               rconnects |-> 0]
    /\ net = [inflight |-> <<>>, greeted |-> FALSE, replies |-> 0, payload |-> <<>>,
              causal |-> TRUE, sent |-> <<>>]
    /\ obs = [data |-> <<>>, connects |-> 0, errors |-> <<>>, negErrors |-> 0,
              rx |-> <<>>, threw |-> FALSE, connectCalled |-> FALSE,
              endCalled |-> FALSE, wroteBefore |-> <<>>, wroteAfter |-> <<>>,
              piped |-> 0, flushed |-> <<>>, events |-> {}, early |-> {},
              reads |-> {}, calls |-> 0, recalls |-> {}]

\* the transfer variables of a context on which no transfer runs
XferIdle ==
    /\ XferInit
    /\ cfg = [type |-> "download", useSocksProxy |-> TRUE, timeout |-> TimeoutMs,
              command |-> "RETR", srcTotal |-> 0]
    /\ ftp.tls = "plain"

\* the tunnel has written an item of this kind to realSocket
Sent(kind) == \E i \in 1 .. Len(sock.out) : sock.out[i].k = kind

\* the consumer calls connect(port, host) (once)
Connect ==
    /\ ~obs.connectCalled
    /\ ~sock.connected /\ ~sock.connecting
    /\ sock' = [sock EXCEPT !.connecting = TRUE, !.rstate = "connecting",
                            !.rconnects = @ + 1]
    /\ obs' = [obs EXCEPT !.connectCalled = TRUE, !.calls = @ + 1]
    /\ UNCHANGED <<net, xferVars, auxVars>>

\* the callback of realSocket.connect: the TCP connection to the proxy is open
RealConnected ==
    /\ sock.rstate = "connecting"
    /\ ApplyTunnel(sendAuth([Tunnel EXCEPT !.sock.connecting = FALSE,
                                           !.sock.rstate = "open"]))
    /\ UNCHANGED <<net, xferVars, auxVars>>

\* the consumer calls write(str)
Write ==
    /\ ~obs.endCalled
    /\ Len(obs.wroteBefore) + Len(obs.wroteAfter) < MaxWrites
    /\ LET b == WriteByte(Len(obs.wroteBefore) + Len(obs.wroteAfter) + 1) IN
          ApplyTunnel(write(
              [Tunnel EXCEPT !.obs.wroteBefore =
                                 IF sock.connected THEN @ ELSE Append(@, b),
                             !.obs.wroteAfter =
                                 IF sock.connected THEN Append(@, b) ELSE @],
              <<b>>))
    /\ UNCHANGED <<net, xferVars, auxVars>>

\* the consumer calls end() or end(data)
End ==
    /\ ~obs.endCalled
    /\ \E data \in {<<>>, <<99>>} :
          ApplyTunnel(end(
              [Tunnel EXCEPT !.obs.endCalled = TRUE,
                             !.obs.wroteAfter =
                                 IF sock.connected THEN @ \o data ELSE @],
              data))
    /\ UNCHANGED <<net, xferVars, auxVars>>

\* the consumer calls pipe(dest); the sinks are numbered in call order
Pipe ==
    /\ obs.piped < MaxPipes
    /\ ApplyTunnel(pipe([Tunnel EXCEPT !.obs.piped = @ + 1], obs.piped + 1))
    /\ UNCHANGED <<net, xferVars, auxVars>>

\* the proxy answers the greeting, rightly or wrongly
ProxyGreetingReply ==
    /\ sock.rstate = "open" /\ ~net.greeted
    /\ \E g \in GreetingReplies :
          net' = [net EXCEPT !.greeted = TRUE,
                             !.causal = @ /\ Sent("greeting"),
                             !.sent = Append(@, g),
                             !.inflight = @ \o Tagged(g, "g")]
    /\ UNCHANGED <<sock, obs, xferVars, auxVars>>

\* the proxy sends a CONNECT reply, rightly or wrongly
ProxyConnectReply ==
    /\ net.greeted /\ net.replies < MaxReplies /\ net.payload = <<>>
    /\ \E r \in ConnectReplies :
          net' = [net EXCEPT !.replies = @ + 1,
                             !.causal = @ /\ Sent("connect"),
                             !.sent = Append(@, r),
                             !.inflight = @ \o Tagged(r, "c")]
    /\ UNCHANGED <<sock, obs, xferVars, auxVars>>

\* the proxy forwards a byte of the target's payload
ProxyPayload ==
    /\ net.replies >= 1 /\ Len(net.payload) < MaxPayload
    /\ LET b == PayloadByte(Len(net.payload) + 1) IN
          net' = [net EXCEPT !.payload = Append(@, b),
                             !.inflight = @ \o Tagged(<<b>>, "p")]
    /\ UNCHANGED <<sock, obs, xferVars, auxVars>>

\* realSocket emits 'data' with the next n bytes the proxy sent: the step
\* of the tunnel and the proxy
RealDataStep ==
    \E n \in 1 .. Len(net.inflight) :
        /\ ApplyTunnel(onRealData(Tunnel, SubSeq(net.inflight, 1, n)))
        /\ net' = [net EXCEPT !.inflight = SubSeq(@, n + 1, Len(@))]

RealData ==
    /\ RealDataStep
    /\ UNCHANGED <<xferVars, auxVars>>

\* the consumer calls connect(port, host) again; obs.recalls records how
\* far the call before it had got and whether this one threw
ConnectAgain ==
    /\ obs.connectCalled /\ obs.calls < MaxConnects
    /\ \E outcome \in {"again", "error"} :
          LET r == connect(Tunnel, outcome) IN
              /\ sock' = r.sock
              /\ obs' = [r.obs EXCEPT !.calls = @ + 1,
                                      !.recalls = @ \cup {[phase |-> Phase(Tunnel),
                                                           threw |-> r.exc]}]
    /\ UNCHANGED <<net, xferVars, auxVars>>

\* realSocket emits 'readable': n bytes have arrived (none at the end of
\* the stream)
RealReadable ==
    /\ sock.rstate = "open"
    /\ \E n \in 0 .. Len(net.inflight) :
          /\ ApplyTunnel(onRealReadable(Tunnel, SubSeq(net.inflight, 1, n)))
          /\ net' = [net EXCEPT !.inflight = SubSeq(@, n + 1, Len(@))]
    /\ UNCHANGED <<xferVars, auxVars>>

\* realSocket emits 'drain': what was written to it has left its buffer
RealDrain ==
    /\ sock.rstate = "open" /\ sock.out # <<>>
    /\ ApplyTunnel(onRealDrain(Tunnel))
    /\ UNCHANGED <<net, xferVars, auxVars>>

\* the consumer calls read()
Read ==
    /\ \E n \in 0 .. (IF sock.connected THEN Len(net.inflight) ELSE 0) :
          /\ ApplyTunnel(read(Tunnel, SubSeq(net.inflight, 1, n)))
          /\ net' = [net EXCEPT !.inflight = SubSeq(@, n + 1, Len(@))]
    /\ UNCHANGED <<xferVars, auxVars>>

\* the tunnel, its events and a consumer that calls connect and read
HandshakeNext ==
    \/ Connect
    \/ ConnectAgain
    \/ RealConnected
    \/ ProxyGreetingReply
    \/ ProxyConnectReply
    \/ ProxyPayload
    \/ RealData
    \/ RealReadable
    \/ RealDrain
    \/ Read

TunnelNext ==
    \/ Connect
    \/ RealConnected
    \/ Write
    \/ End
    \/ Pipe
    \/ ProxyGreetingReply
    \/ ProxyConnectReply
    \/ ProxyPayload
    \/ RealData

(***************************************************************************)
(* Passive mode (src/src/transfer.ts 16-81)                                *)
(*                                                                         *)
(* A string is a sequence of one-character strings.  pasv holds the reply  *)
(* to PASV or EPSV, the control socket's remoteAddress, and what           *)
(* enterPassiveModeIPv4 / enterPassiveModeIPv6 made of them: a throw, or   *)
(* the host and port handed to connectForPassiveTransfer.                  *)
(***************************************************************************)
Digits == <<"0", "1", "2", "3", "4", "5", "6", "7", "8", "9">>

DigitSet == { Digits[i] : i \in 1 .. 10 }

IsDigit(c) == c \in DigitSet

DigitVal(c) == (CHOOSE i \in 1 .. 10 : Digits[i] = c) - 1

\* NaN; a number n is <<n>>
NaN == <<>>

RECURSIVE DecValue(_)
DecValue(s) ==
    IF s = <<>> THEN 0
    ELSE DecValue(SubSeq(s, 1, Len(s) - 1)) * 10 + DigitVal(s[Len(s)])

\* the number of leading characters of s that are in the set ok
LeadingRun(s, ok) ==
    CHOOSE n \in 0 .. Len(s) :
        /\ \A k \in 1 .. n : s[k] \in ok
        /\ n = Len(s) \/ s[n + 1] \notin ok

\* parseInt(s, 10) of a string without leading white space: an optional
\* sign, then digits up to the first character that is not a digit; NaN
\* when there is no digit
parseInt(s) ==
    LET signed == Len(s) >= 1 /\ s[1] \in {"-", "+"}
        body == IF signed THEN Tail(s) ELSE s
        n == LeadingRun(body, DigitSet)
        v == DecValue(SubSeq(body, 1, n))
    IN  IF n = 0 THEN NaN
        ELSE IF signed /\ s[1] = "-" THEN <<0 - v>> ELSE <<v>>

\* x & 255 for the result of parseInt: NaN becomes 0, a negative number is
\* taken in two's complement
And255(x) == IF x = NaN THEN 0 ELSE x[1] % 256

\* s.split(sep)
RECURSIVE Split(_, _)
Split(s, sep) ==
    IF \A k \in 1 .. Len(s) : s[k] # sep THEN <<s>>
    ELSE LET i == CHOOSE k \in 1 .. Len(s) :
                      s[k] = sep /\ \A j \in 1 .. k - 1 : s[j] # sep
         IN  <<SubSeq(s, 1, i - 1)>> \o Split(SubSeq(s, i + 1, Len(s)), sep)

\* s.replace(/,/g, ".")
CommasToDots(s) == [k \in 1 .. Len(s) |-> IF s[k] = "," THEN "." ELSE s[k]]

\* the character class [-\d]
NumChSet == {"-"} \cup DigitSet

IsNumCh(c) == c \in NumChSet

\* [-\d]+ (k times, separated by commas) matched at position i of m: the
\* <<first, last>> positions of the k runs, or <<>> when there is no match
RECURSIVE matchRuns(_, _, _)
matchRuns(m, i, k) ==
    IF i > Len(m) THEN <<>>
    ELSE LET n == LeadingRun(SubSeq(m, i, Len(m)), NumChSet)
             e == i + n - 1
         IN  IF n = 0 THEN <<>>
             ELSE IF k = 1 THEN << <<i, e>> >>
             ELSE IF e + 1 <= Len(m) /\ m[e + 1] = ","
             THEN LET rest == matchRuns(m, e + 2, k - 1)
                  IN  IF rest = <<>> THEN <<>> ELSE << <<i, e>> >> \o rest
             ELSE <<>>

\* the result of a parser or of enterPassiveMode: thrown, or host and port
Thrown == [ok |-> FALSE, host |-> <<>>, port |-> 0]

Target(host, port) == [ok |-> TRUE, host |-> host, port |-> port]

\* message.match(/([-\d]+,[-\d]+,[-\d]+,[-\d]+),([-\d]+),([-\d]+)/): the
\* leftmost match
parsePasvResponse(message) ==
    LET starts == { i \in 1 .. Len(message) : matchRuns(message, i, 6) # <<>> }
    IN  IF starts = {} THEN Thrown
        ELSE LET i == CHOOSE a \in starts : \A b \in starts : a <= b
                 g == matchRuns(message, i, 6)
                 group(k) == SubSeq(message, g[k][1], g[k][2])
             IN  Target(CommasToDots(SubSeq(message, g[1][1], g[4][2])),
                        And255(parseInt(group(5))) * 256 + And255(parseInt(group(6))))

\* netUtils.ipIsPrivateV4Address: the address lies in 10.0.0.0/8,
\* 172.16.0.0/12 or 192.168.0.0/16
ipIsPrivateV4Address(ip) ==
    LET octets == Split(ip, ".")
        o(k) == IF k <= Len(octets) THEN parseInt(octets[k]) ELSE NaN
    IN  \/ o(1) = <<10>>
        \/ o(1) = <<172>> /\ o(2) # NaN /\ o(2)[1] >= 16 /\ o(2)[1] <= 31
        \/ o(1) = <<192>> /\ o(2) = <<168>>

\* mutant of enterPassiveModeIPv4: a private host is replaced whatever the
\* control host is
enterPassiveModeIPv4Always(message, controlHost) ==
    LET target == parsePasvResponse(message)
    IN  IF ~target.ok THEN Thrown
        ELSE IF ipIsPrivateV4Address(target.host) /\ controlHost # <<>>
        THEN Target(controlHost, target.port)
        ELSE target

\* enterPassiveModeIPv4 from the reply on: what connectForPassiveTransfer
\* is called with; controlHost <<>> is undefined
enterPassiveModeIPv4(message, controlHost) ==
    LET target == parsePasvResponse(message)
    IN  IF ~target.ok THEN Thrown
        ELSE IF ipIsPrivateV4Address(target.host) /\ controlHost # <<>>
                /\ ~ipIsPrivateV4Address(controlHost)
        THEN Target(controlHost, target.port)
        ELSE target

IsDelim(c) == c = "|" \/ c = "!"

\* message.match(/[|!]{3}(.+)[|!]/) and parseInt of the group; the result's
\* host is not used
parseEpsvResponse(message) ==
    LET n == Len(message)
        \* a match that starts at i: three delimiters, the longest group that
        \* a delimiter follows
        ends(i) == { j \in i + 4 .. n : IsDelim(message[j]) }
        matches(i) == /\ i + 2 <= n
                      /\ \A k \in i .. i + 2 : IsDelim(message[k])
                      /\ ends(i) # {}
        starts == { i \in 1 .. n : matches(i) }
    IN  IF starts = {} THEN Thrown
        ELSE LET i == CHOOSE a \in starts : \A b \in starts : a <= b
                 j == CHOOSE a \in ends(i) : \A b \in ends(i) : a >= b
                 port == parseInt(SubSeq(message, i + 3, j - 1))
             IN  IF port = NaN THEN Thrown ELSE Target(<<>>, port[1])

\* enterPassiveModeIPv6 from the reply on
enterPassiveModeIPv6(message, controlHost) ==
    LET res == parseEpsvResponse(message)
    IN  IF ~res.ok THEN Thrown
        ELSE IF res.port = 0 THEN Thrown
        ELSE IF controlHost = <<>> THEN Thrown
        ELSE Target(controlHost, res.port)

\* s[1], sep, s[2], sep, ... of a sequence of strings
RECURSIVE Join(_, _)
Join(ss, sep) ==
    IF ss = <<>> THEN <<>>
    ELSE IF Len(ss) = 1 THEN ss[1]
    ELSE ss[1] \o <<sep>> \o Join(Tail(ss), sep)

\* The replies to PASV the model parses: the text around the numbers, four
\* host fields and one or two port fields.  Besides integers the fields
\* include "-" (matched by [-\d]+, not a number) and "x4".
PasvWraps == {<< <<>>, <<>> >>, << <<"2", "2", "7", " ", "(">>, <<")", ".">> >>}

PasvH1 == {<<"1", "0">>, <<"1", "7", "2">>, <<"1", "9", "2">>, <<"8">>}

PasvH2 == {<<"1", "6">>, <<"1", "6", "8">>, <<"3", "2">>}

PasvH3 == {<<"0">>, <<"-">>}

PasvH4 == {<<"1">>}

PortFields == {<<"4">>, <<"-", "1">>, <<"3", "0", "0">>, <<"-">>, <<"x", "4">>}

PasvFieldLists ==
    { <<h1, h2, h3, h4, p1>> \o tail :
        h1 \in PasvH1, h2 \in PasvH2, h3 \in PasvH3, h4 \in PasvH4,
        p1 \in PortFields, tail \in {<<>>} \cup { <<p2>> : p2 \in PortFields } }

\* remoteAddress of the control socket: undefined, private, public
ControlHostsV4 ==
    {<<>>,
     <<"1", "0", ".", "0", ".", "0", ".", "5">>,
     <<"1", "7", "2", ".", "2", "0", ".", "0", ".", "1">>,
     <<"1", "7", "2", ".", "3", "2", ".", "0", ".", "1">>,
     <<"8", ".", "8", ".", "8", ".", "8">>}

\* The replies to EPSV: text, three delimiters, the group, a delimiter (or
\* none), text
EpsvDelims == {"|", "!"}

EpsvGroups == {<<"2", "1">>, <<"0">>, <<"6", "5", "5", "3", "5">>, <<"1", "2", "a">>, <<"a">>, <<>>, <<"-", "5">>}

EpsvShapes == {"full", "unclosed", "short"}

EpsvMessage(d, g, shape) ==
    <<"2", "2", "9", " ", "(">> \o (IF shape = "short" THEN <<d, d>> ELSE <<d, d, d>>) \o g
         \o (IF shape = "unclosed" THEN <<>> ELSE <<d>>) \o <<")">>

ControlHostsV6 == {<<>>, <<":", ":", "1">>, <<"1", "0", ".", "0", ".", "0", ".", "5">>}

\* the reply has arrived and enterPassiveMode has not looked at it yet;
\* fields, group and shape say how the reply was put together
PasvInit ==
    \/ \E w \in PasvWraps, f \in PasvFieldLists, c \in ControlHostsV4 :
          pasv = [family |-> 4, message |-> w[1] \o Join(f, ",") \o w[2],
                  fields |-> f, shape |-> "pasv", controlHost |-> c,
                  state |-> "reply", parsed |-> Thrown, host |-> <<>>, port |-> 0]
    \/ \E d \in EpsvDelims, g \in EpsvGroups, sh \in EpsvShapes, c \in ControlHostsV6 :
          pasv = [family |-> 6, message |-> EpsvMessage(d, g, sh),
                  fields |-> <<g>>, shape |-> sh, controlHost |-> c,
                  state |-> "reply", parsed |-> Thrown, host |-> <<>>, port |-> 0]

\* the outcome of enterPassiveMode, with what the parser returned
Entered(parsed, r) ==
    pasv' = [pasv EXCEPT !.state = IF r.ok THEN "connecting" ELSE "threw",
                         !.parsed = parsed, !.host = r.host, !.port = r.port]

EnterPassiveModeIPv4 ==
    /\ pasv.family = 4 /\ pasv.state = "reply"
    /\ Entered(parsePasvResponse(pasv.message),
               enterPassiveModeIPv4(pasv.message, pasv.controlHost))
    /\ UNCHANGED <<xferVars, tunnelVars, req, dconn, prev>>

EnterPassiveModeIPv6 ==
    /\ pasv.family = 6 /\ pasv.state = "reply"
    /\ Entered(parseEpsvResponse(pasv.message),
               enterPassiveModeIPv6(pasv.message, pasv.controlHost))
    /\ UNCHANGED <<xferVars, tunnelVars, req, dconn, prev>>

PasvNext ==
    \/ EnterPassiveModeIPv4
    \/ EnterPassiveModeIPv6

(***************************************************************************)
(* The CONNECT request (src/src/proxySocket.ts 308-383)                    *)
(*                                                                         *)
(* req holds the target host (its text, what net.isIP says of it, and for  *)
(* an IP literal the address it denotes), the target port, and the bytes   *)
(* sendConnect hands to realSocket.write.                                  *)
(***************************************************************************)
\* host.charCodeAt(i) for the characters of the model's hosts
LetterCodes ==
    "-" :> 45 @@
    "." :> 46 @@
    ":" :> 58 @@
    "a" :> 97 @@
    "b" :> 98 @@
    "c" :> 99 @@
    "d" :> 100 @@
    "e" :> 101 @@
    "f" :> 102 @@
    "g" :> 103 @@
    "h" :> 104 @@
    "i" :> 105 @@
    "j" :> 106 @@
    "k" :> 107 @@
    "l" :> 108 @@
    "m" :> 109 @@
    "n" :> 110 @@
    "o" :> 111 @@
    "p" :> 112 @@
    "q" :> 113 @@
    "r" :> 114 @@
    "s" :> 115 @@
    "t" :> 116 @@
    "u" :> 117 @@
    "v" :> 118 @@
    "w" :> 119 @@
    "x" :> 120 @@
    "y" :> 121 @@
    "z" :> 122

charCodeAt(c) == IF IsDigit(c) THEN 48 + DigitVal(c) ELSE LetterCodes[c]

HexLetters == <<"a", "b", "c", "d", "e", "f">>

HexDigitSet == DigitSet \cup { HexLetters[i] : i \in 1 .. 6 }

IsHexDigit(c) == c \in HexDigitSet

HexVal(c) ==
    IF IsDigit(c) THEN DigitVal(c)
    ELSE 9 + (CHOOSE i \in 1 .. 6 : HexLetters[i] = c)

RECURSIVE HexValue(_)
HexValue(s) ==
    IF s = <<>> THEN 0
    ELSE HexValue(SubSeq(s, 1, Len(s) - 1)) * 16 + HexVal(s[Len(s)])

\* parseInt(s, 16) of an unsigned string: the hex digits up to the first
\* other character; NaN when there is none
parseInt16(s) ==
    LET n == LeadingRun(s, HexDigitSet)
    IN  IF n = 0 THEN NaN ELSE <<HexValue(SubSeq(s, 1, n))>>

\* Buffer.from(buffer): every element is stored as a byte (NaN as 0)
ToByte(x) == IF x = NaN THEN 0 ELSE x[1] % 256

parseDomainName(host) ==
    <<ToByte(<<Len(host)>>)>> \o [i \in 1 .. Len(host) |-> ToByte(<<charCodeAt(host[i])>>)]

parseIPv4(host) ==
    LET parts == Split(host, ".")
    IN  [i \in 1 .. Len(parts) |-> ToByte(parseInt(parts[i]))]

Zeros4 == <<"0", "0", "0", "0">>

parseIPv6(host) ==
    LET split == Split(host, ":")
        first == [split EXCEPT ![1] = IF @ = <<>> THEN Zeros4 ELSE @]
        parts == [first EXCEPT ![Len(first)] = IF @ = <<>> THEN Zeros4 ELSE @]
        holes == { k \in 1 .. Len(parts) : parts[k] = <<>> }
        ind == IF holes = {} THEN 0 ELSE CHOOSE a \in holes : \A b \in holes : a <= b
        nz == 8 - Len(parts) + 1
        zeros == [i \in 1 .. (IF nz > 0 THEN nz ELSE 0) |-> Zeros4]
        spliced == IF ind > 0
                   THEN SubSeq(parts, 1, ind - 1) \o zeros
                            \o SubSeq(parts, ind + 1, Len(parts))
                   ELSE parts
        num(i) == IF i <= Len(spliced) THEN parseInt16(spliced[i]) ELSE NaN
        hi(i) == IF num(i) = NaN THEN NaN ELSE <<num(i)[1] \div 256>>
    IN  [j \in 1 .. 16 |-> IF j % 2 = 1 THEN ToByte(hi((j + 1) \div 2))
                           ELSE ToByte(num(j \div 2))]

\* htons(buffer, buffer.length, port): the two bytes appended
htons(v) == <<(v \div 256) % 256, v % 256>>

\* the request sendConnect writes; isIP is net.isIP(host)
connectRequest(host, isIP, port) ==
    <<5, 1, 0>>
        \o (IF isIP = 4 THEN <<1>> \o parseIPv4(host)
            ELSE IF isIP = 6 THEN <<4>> \o parseIPv6(host)
            ELSE <<3>> \o parseDomainName(host))
        \o htons(port)

\* lengths of the domain names a...a of the model (255 is the longest a
\* length byte can describe)
DomainLengths == {1, 255, 256}

\* target hosts: text, net.isIP(text), and the address an IP literal denotes
IPv4Hosts ==
    { [text |-> <<"1", ".", "2", ".", "3", ".", "4">>, isIP |-> 4, addr |-> <<1, 2, 3, 4>>],
      [text |-> <<"1", "9", "2", ".", "1", "6", "8", ".", "0", ".", "2", "5", "5">>, isIP |-> 4, addr |-> <<192, 168, 0, 255>>],
      [text |-> <<"1", "0", ".", "0", ".", "0", ".", "1">>, isIP |-> 4, addr |-> <<10, 0, 0, 1>>] }

IPv6Hosts ==
    { [text |-> <<":", ":">>, isIP |-> 6,
       addr |-> <<0, 0, 0, 0, 0, 0, 0, 0, 0, 0, 0, 0, 0, 0, 0, 0>>],
      [text |-> <<":", ":", "1">>, isIP |-> 6,
       addr |-> <<0, 0, 0, 0, 0, 0, 0, 0, 0, 0, 0, 0, 0, 0, 0, 1>>],
      [text |-> <<"1", ":", ":">>, isIP |-> 6,
       addr |-> <<0, 1, 0, 0, 0, 0, 0, 0, 0, 0, 0, 0, 0, 0, 0, 0>>],
      [text |-> <<"f", "e", "8", "0", ":", ":", "1">>, isIP |-> 6,
       addr |-> <<254, 128, 0, 0, 0, 0, 0, 0, 0, 0, 0, 0, 0, 0, 0, 1>>],
      [text |-> <<"1", ":", "2", ":", "3", ":", "4", ":", "5", ":", "6", ":", "7", ":", "8">>, isIP |-> 6,
       addr |-> <<0, 1, 0, 2, 0, 3, 0, 4, 0, 5, 0, 6, 0, 7, 0, 8>>],
      [text |-> <<"2", "0", "0", "1", ":", "d", "b", "8", ":", ":", "f", "f", "0", "0", ":", "4", "2", ":", "8", "3", "2", "9">>, isIP |-> 6,
       addr |-> <<32, 1, 13, 184, 0, 0, 0, 0, 0, 0, 255, 0, 0, 66, 131, 41>>],
      [text |-> <<":", ":", "f", "f", "f", "f", ":", "1", ".", "2", ".", "3", ".", "4">>, isIP |-> 6,
       addr |-> <<0, 0, 0, 0, 0, 0, 0, 0, 0, 0, 255, 255, 1, 2, 3, 4>>] }

DomainHosts ==
    { [text |-> <<"e", "x", "a", "m", "p", "l", "e", ".", "o", "r", "g">>, isIP |-> 0, addr |-> <<>>],
      [text |-> <<"f", "t", "p", "-", "1", ".", "e", "x", "a", "m", "p", "l", "e", ".", "o", "r", "g">>, isIP |-> 0, addr |-> <<>>] }
    \cup { [text |-> [i \in 1 .. n |-> "a"], isIP |-> 0, addr |-> <<>>] :
             n \in DomainLengths }

TargetHosts == IPv4Hosts \cup IPv6Hosts \cup DomainHosts

TargetPorts == {0, 21, 255, 256, 2121, 65535}

\* connect(port, host) has stored host and port; the proxy has accepted the
\* greeting
ReqInit ==
    \E h \in TargetHosts, p \in TargetPorts :
        req = [host |-> h, port |-> p, sent |-> FALSE, request |-> <<>>]

SendConnect ==
    /\ ~req.sent
    /\ req' = [req EXCEPT !.sent = TRUE,
                          !.request = connectRequest(req.host.text, req.host.isIP,
                                                     req.port)]
    /\ UNCHANGED <<xferVars, tunnelVars, pasv, dconn, prev>>

ReqNext == SendConnect

(***************************************************************************)
(* connectForPassiveTransfer (src/src/transfer.ts 83-123)                  *)
(*                                                                         *)
(* dconn is one call: the socket ftp._newSocket() returned (a TCP socket,  *)
(* or the ProxySocket `sock` when the context uses the SOCKS proxy), the   *)
(* promise, the calls of its resolve and reject functions, and             *)
(* ftp.dataSocket ("undefined", "previous": the socket it held before the  *)
(* call, "this": the socket of this call).                                 *)
(***************************************************************************)
\* resolve() / reject(): only the first call settles the promise
settle(d, how) ==
    [d EXCEPT !.calls = Append(@, how),
              !.promise = IF @ = "pending"
                          THEN (IF how = "resolve" THEN "resolved" ELSE "rejected")
                          ELSE @]

\* what happened first to the socket of this call
noted(d, what) == [d EXCEPT !.first = IF @ = "none" THEN what ELSE @]

handleConnErr(d) == settle(noted(d, "error"), "reject")

handleTimeout(d) ==
    settle([noted(d, "timeout") EXCEPT !.destroyed = TRUE], "reject")

\* the callback of socket.connect; with a TLS control connection `socket`
\* is rebound to the TLS socket first, so the two listeners stay on the
\* socket they were added to
connectCallback(d) ==
    settle([noted(d, "connect") EXCEPT !.listeners = IF d.tls THEN @ ELSE FALSE,
                                       !.dataSocket = "this"],
           "resolve")

\* the part of the call that runs at once: new socket, setTimeout, the two
\* listeners, socket.connect
DconnInit ==
    \E k \in {"tcp", "socks"}, tls \in BOOLEAN, t \in {0, TimeoutMs},
       prior \in {"undefined", "previous"} :
        dconn = [kind |-> k, tls |-> tls, timeout |-> t, prior |-> prior,
                 dataSocket |-> prior, listeners |-> TRUE, raw |-> "connecting",
                 destroyed |-> FALSE, promise |-> "pending", calls |-> <<>>,
                 first |-> "none"]

\* the socket can still emit events: it has not been destroyed and has not
\* failed
Alive == ~dconn.destroyed /\ dconn.raw # "failed"

\* TCP socket: 'connect'
TcpConnected ==
    /\ dconn.kind = "tcp" /\ Alive /\ dconn.raw = "connecting"
    /\ dconn' = connectCallback([dconn EXCEPT !.raw = "open"])
    /\ UNCHANGED <<xferVars, tunnelVars, pasv, req, prev>>

\* TCP socket: 'error' while connecting; the socket closes itself
TcpError ==
    /\ dconn.kind = "tcp" /\ Alive /\ dconn.raw = "connecting"
    /\ dconn' = handleConnErr([dconn EXCEPT !.raw = "failed"])
    /\ UNCHANGED <<xferVars, tunnelVars, pasv, req, prev>>

\* 'timeout' of the socket (of realSocket, re-emitted, for a ProxySocket)
\* before it has connected: no activity for ftp.timeout ms
SocketTimeout ==
    /\ dconn.timeout > 0 /\ Alive /\ dconn.listeners
    /\ dconn.first \in {"none", "error"}
    /\ dconn' = handleTimeout(dconn)
    /\ UNCHANGED <<xferVars, tunnelVars, pasv, req, prev>>

\* ProxySocket: socket.connect(...) of the call reaches ProxySocket.connect
SocksConnectCall ==
    /\ dconn.kind = "socks" /\ Alive
    /\ Connect

\* ProxySocket: the TCP connection to the proxy is open
SocksRealConnected ==
    /\ dconn.kind = "socks" /\ Alive
    /\ RealConnected

\* ProxySocket: realSocket emits 'error' (re-emitted); realSocket closes
SocksRealError ==
    /\ dconn.kind = "socks" /\ Alive /\ ~sock.connected
    /\ sock.rstate \in {"connecting", "open"}
    /\ obs' = [obs EXCEPT !.errors = Append(@, "real")]
    /\ dconn' = IF dconn.listeners THEN handleConnErr([dconn EXCEPT !.raw = "failed"])
                ELSE [dconn EXCEPT !.raw = "failed"]
    /\ UNCHANGED <<xferVars, sock, net, pasv, req, prev>>

SocksGreetingReply ==
    /\ dconn.kind = "socks"
    /\ ProxyGreetingReply

SocksConnectReply ==
    /\ dconn.kind = "socks"
    /\ ProxyConnectReply

\* ProxySocket: realSocket emits 'data'; an 'error' the tunnel emits goes
\* to handleConnErr, its 'connect' to the callback of socket.connect
SocksRealData ==
    /\ dconn.kind = "socks" /\ Alive
    /\ RealDataStep
    /\ dconn' =
         IF Len(obs'.errors) > Len(obs.errors) /\ dconn.listeners
         THEN handleConnErr(dconn)
         ELSE IF obs'.connects > obs.connects
         THEN connectCallback([dconn EXCEPT !.raw = "open"])
         ELSE dconn
    /\ UNCHANGED <<xferVars, pasv, req, prev>>

DconnNext ==
    \/ TcpConnected
    \/ TcpError
    \/ SocketTimeout
    \/ SocksConnectCall
    \/ SocksRealConnected
    \/ SocksRealError
    \/ SocksGreetingReply
    \/ SocksConnectReply
    \/ SocksRealData

(***************************************************************************)
(* Specifications                                                          *)
(***************************************************************************)
\* the variables of the specifications that are not running
PasvIdle == pasv = <<>>

ReqIdle == req = <<>>

DconnIdle == dconn = <<>>

PrevIdle == prev = <<>>

AuxIdle == PasvIdle /\ ReqIdle /\ DconnIdle /\ PrevIdle

\* one transfer task; no tunnel step
Init == XferInit /\ TunnelInit /\ AuxIdle

Next == XferNext

Spec == Init /\ [][Next]_vars

\* pipeline(source, passThrough, dataSocket) calls back after
\* checkRemoteSize has ended the data socket
EndedPipelineDone == up.endCalls > 0 /\ SocksPipelineDone

\* Spec, with the one progress condition the upload code arranges for: the
\* pass-through's end() is replaced and never ends the pipeline, so before
\* dataSocket.end() the pipeline calls back only if a stream fails; once
\* checkRemoteSize has called dataSocket.end(), the socket finishes, closes
\* or fails, and the pipeline calls back.
FairSpec == Init /\ [][Next]_vars /\ WF_vars(EndedPipelineDone)

\* one tunnel; no transfer step
TunnelSpecInit == TunnelInit /\ XferIdle /\ AuxIdle

TunnelSpec == TunnelSpecInit /\ [][TunnelNext]_vars

HandshakeSpecInit == TunnelInit /\ XferIdle /\ AuxIdle

HandshakeSpec == HandshakeSpecInit /\ [][HandshakeNext]_vars

\* one reply to PASV or EPSV; no transfer, no tunnel
PasvSpecInit ==
    PasvInit /\ XferIdle /\ TunnelInit /\ ReqIdle /\ DconnIdle /\ PrevIdle

PasvSpec == PasvSpecInit /\ [][PasvNext]_vars

\* one CONNECT request; no transfer, no tunnel step
ReqSpecInit ==
    ReqInit /\ XferIdle /\ TunnelInit /\ PasvIdle /\ DconnIdle /\ PrevIdle

ReqSpec == ReqSpecInit /\ [][ReqNext]_vars

\* one call of connectForPassiveTransfer; no transfer
DconnSpecInit ==
    DconnInit /\ TunnelInit /\ XferIdle /\ PasvIdle /\ ReqIdle /\ PrevIdle

DconnSpec == DconnSpecInit /\ [][DconnNext]_vars

\* two transfers without the proxy, one after the other on one context
LaterSpecInit ==
    /\ XferInit /\ ~cfg.useSocksProxy
    /\ TunnelInit /\ PasvIdle /\ ReqIdle /\ DconnIdle /\ PrevInit

LaterSpec == LaterSpecInit /\ [][LaterNext]_vars

(***************************************************************************)
(* Properties of the transfer resolver                                     *)
(***************************************************************************)
Calls == { task[i] : i \in 1 .. Len(task) }

Resolved == \E c \in Calls : c.op = "resolve"

\* C1: when onDataDone and onControlDone have each arrived once and no error
\* has occurred, task.resolve has been called exactly once, with the
\* response that was passed to onControlDone, and task.reject not at all.
C1_ResolvesOnceWithControlResponse ==
    (hist.nDataDone = 1 /\ hist.nControlDone = 1 /\ hist.nError = 0)
        => task = <<Resolve(hist.lastControl)>>

\* C1 witness: the 2xx reply came first, the data channel finished second
C1_Witness ==
    /\ hist.nDataDone = 1 /\ hist.nControlDone = 1 /\ hist.nError = 0
    /\ hist.first = "control"
    /\ task = <<Resolve(Response(226))>>

\* the other arrival order of C1: data channel first, 2xx reply second
C1_WitnessDataFirst ==
    /\ hist.nDataDone = 1 /\ hist.nControlDone = 1 /\ hist.nError = 0
    /\ hist.first = "data"
    /\ task = <<Resolve(Response(250))>>

\* C2: task.resolve is called only when onDataDone has occurred and
\* onControlDone has recorded a response.
C2_ResolveNeedsBoth ==
    Resolved => (hist.nDataDone >= 1 /\ hist.nControlDone >= 1
                 /\ resolver.dataTransferDone /\ resolver.response # Undefined)

\* C2 witness: a transfer that received two 2xx replies while the data
\* channel was busy stayed pending, and resolved when the data channel ended
C2_Witness ==
    Resolved /\ hist.nControlDone = 2 /\ hist.nDataDone = 1 /\ hist.first = "control"

\* C3 (as claimed): once task.resolve or task.reject has been called, no
\* further call of either is made for the transfer.
C3_OneShot == Len(task) <= 1

\* C4: in a SOCKS upload whose probe reported serverSize = translength and
\* whose pipeline then called back with ECONNRESET, the data channel counts
\* as done, the task is not rejected with ECONNRESET, and with the 2xx reply
\* recorded and no other error the task is resolved, once, with that reply.
C4_ResetAfterGoodProbeIsSuccess ==
    (/\ up.kind = "socks" /\ up.outcome = "reported"
     /\ up.serverFileSize = up.translength
     /\ up.cb = "ECONNRESET" /\ up.cbProbe = "done")
        => /\ resolver.dataTransferDone
           /\ Reject("ECONNRESET") \notin Calls
           /\ (resolver.response # Undefined /\ hist.nError = 0)
                  => (task # <<>> /\ \A c \in Calls : c.op = "resolve")
           /\ (hist.nControlDone = 1 /\ hist.nError = 0)
                  => task = <<Resolve(hist.lastControl)>>

\* C4 witness: a two-byte upload, SIZE answered 2, ECONNRESET, resolved 226
C4_Witness ==
    /\ up.kind = "socks" /\ up.outcome = "reported"
    /\ up.translength = 2 /\ up.serverFileSize = 2
    /\ up.cb = "ECONNRESET" /\ up.cbProbe = "done"
    /\ task = <<Resolve(Response(226))>>

C6_OnlyProvenResetIsTolerated ==
    (up.cb \in PipelineErrors) =>
        IF cfg.type = "upload" /\ up.kind = "socks"
           /\ up.cb = "ECONNRESET" /\ up.cbFlag
        THEN hist.nDataDone = 1 /\ Reject(up.cb) \notin Calls
        ELSE hist.nDataDone = 0 /\ Reject(up.cb) \in Calls

\* C6 witness: the sizes matched, but the error is not ECONNRESET: rejected
C6_Witness ==
    /\ up.kind = "socks" /\ up.cb = "EPIPE" /\ up.cbFlag
    /\ task = <<Reject("EPIPE")>>

(***************************************************************************)
(* Properties of the tunnel                                                *)
(***************************************************************************)
\* the bytes of the "data" items among the first n items written to realSocket
RECURSIVE DataBytes(_, _)
DataBytes(out, n) ==
    IF n = 0 THEN <<>>
    ELSE DataBytes(out, n - 1) \o (IF out[n].k = "data" THEN out[n].bytes ELSE <<>>)

\* the negotiation has run without an error event and without a throw,
\* against a proxy that answered only what it had been sent
CleanNegotiation == obs.negErrors = 0 /\ ~obs.threw /\ net.causal

\* C7 (as claimed, for a negotiation that ran cleanly): once Established,
\* the payload written to the underlying socket is exactly the bytes
\* written before Established, in order, followed by those written after,
\* also when end() was called before Established.
C7_BufferedWritesArrive ==
    (sock.connected /\ CleanNegotiation)
        => DataBytes(sock.out, Len(sock.out)) = obs.wroteBefore \o obs.wroteAfter

\* C8 (as claimed): the tunnel is Established, and has emitted 'connect',
\* only when the input before Established was a greeting reply 05 00 and
\* then, with the CONNECT request sent, a reply starting 05 00 00.
C8_EstablishedOnlyByHandshake ==
    (sock.connected \/ obs.connects > 0)
        => /\ Len(obs.rx) = 2
           /\ obs.rx[1].bytes = <<5, 0>>
           /\ obs.rx[2].requested
           /\ SubSeq(obs.rx[2].bytes, 1, 3) = <<5, 0, 0>>

\* C9 (as claimed): once the tunnel has emitted a negotiation error, it is
\* never Established and never emits 'connect'.
C9_NegotiationFailureIsTerminal ==
    (obs.negErrors > 0) => (~sock.connected /\ obs.connects = 0)

\* C10 (as claimed, for a negotiation that ran cleanly): every byte
\* delivered in a 'data' event is a payload byte, and the bytes delivered
\* are the first bytes of the payload the proxy sent.
C10_OnlyPayloadIsDelivered ==
    CleanNegotiation =>
        /\ \A i \in 1 .. Len(obs.data) : obs.data[i].k = "p"
        /\ Len(obs.data) <= Len(net.payload)
        /\ Untag(obs.data) = SubSeq(net.payload, 1, Len(obs.data))

(***************************************************************************)
(* Properties of one transfer: timeouts, TLS start, data socket, commands  *)
(***************************************************************************)
\* C15: timeout ownership.  After onDataStart (until the next onDataDone or
\* onError) the control socket's idle timeout is 0 and the data socket's is
\* T; after onDataDone the control socket's is T and the data socket's is 0;
\* after onError the control socket's is T; and the two are never both 0
\* while T > 0.
C15_TimeoutOwnership ==
    /\ (hist.last = "start") => (ftp.socketTimeout = 0 /\ ftp.dataTimeout = cfg.timeout)
    /\ (hist.last = "done") => (ftp.socketTimeout = cfg.timeout /\ ftp.dataTimeout = 0)
    /\ (hist.last = "error") => ftp.socketTimeout = cfg.timeout
    /\ (cfg.timeout > 0) => ~(ftp.socketTimeout = 0 /\ ftp.dataTimeout = 0)

\* C15 without the late onDataDone: the same, as long as no onDataDone has
\* followed an onError
C15_UntilFirstError ==
    (hist.nError = 0) => C15_TimeoutOwnership

\* C16: in an upload whose data socket was still in its TLS handshake when
\* the 150/125 reply was handled, onDataStart has not been called and
\* nothing has been piped for as long as the handshake is not complete (no
\* 'secureConnect' yet); when the handshake was complete or the socket is
\* not a TLS socket, the upload has started with the handling of the reply.
C16_UploadWaitsForSecureConnect ==
    /\ (hist.readyTls = "handshaking" /\ ftp.tls = "handshaking")
          => /\ hist.nDataStart = 0
             /\ up.pipe = "waitSecure" /\ up.kind = "none"
             /\ up.translength = 0 /\ up.written = 0
    /\ (hist.readyTls \in {"plain", "secure"})
          => (hist.nDataStart = 1 /\ up.kind # "none")

\* C16 witness: the reply came during the handshake, 'secureConnect' has
\* been emitted since, and the upload is running
C16_Witness ==
    /\ cfg.type = "upload" /\ hist.readyTls = "handshaking"
    /\ ftp.tls = "secure" /\ hist.nDataStart = 1 /\ up.pipe = "running"

\* C17: whenever the resolver has called task.resolve or task.reject, the
\* context's dataSocket reference had been set to undefined before that call
\* (hist.held is never set), and it is undefined from then on: the socket
\* of a transfer that is over is not the data socket of the context.
C17_SocketReleasedBeforeSettle ==
    /\ ~hist.held
    /\ (task # <<>>) => ~ftp.dataSocket

\* C17 witness: a transfer that used its data socket has been resolved
C17_Witness ==
    /\ hist.nDataStart = 1 /\ Len(task) = 1 /\ task[1].op = "resolve"
    /\ ~ftp.dataSocket

\* C19: in a download, what has been sent on the control channel is the
\* task's command followed by one RETR for each 350 reply received (so RETR
\* follows the 350, once per 350); a 350 reply is not counted as an
\* unexpected request (only the other 3xx replies are); and a task that has
\* received nothing but 350 replies is still active, so that it handles the
\* 150/125 and the final 2xx reply itself.
C19_RetrFollowsEach350 ==
    (cfg.type = "download") =>
        /\ ftp.sent = <<cfg.command>> \o [i \in 1 .. env.n350 |-> "RETR"]
        /\ hist.nUnexpected = env.n3xx
        /\ (env.n350 = env.nCtl) => (task = <<>> /\ ~ftp.closed)

\* C19 witness: REST, 350, RETR, 150, the data, 226: resolved by the same
\* task
C19_Witness ==
    /\ cfg.type = "download" /\ cfg.command = "REST"
    /\ env.n350 = 1 /\ ftp.sent = <<"REST", "RETR">>
    /\ hist.nDataStart = 1 /\ hist.nDataDone = 1
    /\ task = <<Resolve(Response(226))>>

\* C20 as stated: nothing but the task's own command (the one the task was
\* started with) is written on the control channel
C20_OnlyTheTaskCommand ==
    ftp.sent = <<cfg.command>>

\* C20, amended: while a transfer task runs (and after it), the commands on
\* the control channel are the task's command and, in a download only, at
\* most one RETR per 350 reply received; an upload task writes nothing more.
C20_OnlyTaskCommandAndRetr ==
    /\ Len(ftp.sent) >= 1 /\ ftp.sent[1] = cfg.command
    /\ \A i \in 2 .. Len(ftp.sent) : ftp.sent[i] = "RETR" /\ cfg.type = "download"
    /\ Len(ftp.sent) - 1 <= env.n350

\* C20 witness: a download task that is still active has written a second
\* command
C20_Witness ==
    /\ cfg.type = "download" /\ task = <<>> /\ Len(ftp.sent) = 2

(***************************************************************************)
(* Properties of passive mode                                              *)
(***************************************************************************)
\* an optional minus sign and one or more digits, nothing else
IsInteger(f) ==
    LET body == IF Len(f) >= 1 /\ f[1] = "-" THEN Tail(f) ELSE f
    IN  body # <<>> /\ \A k \in 1 .. Len(body) : IsDigit(body[k])

IntValue(f) == IF f[1] = "-" THEN 0 - DecValue(Tail(f)) ELSE DecValue(f)

\* C11: enterPassiveModeIPv4 connects the data socket to the control
\* channel's remote address when the parsed PASV host is a private IPv4
\* address and the control remote is defined and not private, and to the
\* parsed PASV host in every other case (on the parsed port in both).
C11_NatRepair ==
    (pasv.family = 4 /\ pasv.state = "connecting") =>
        LET repair == /\ ipIsPrivateV4Address(pasv.parsed.host)
                      /\ pasv.controlHost # <<>>
                      /\ ~ipIsPrivateV4Address(pasv.controlHost)
        IN  /\ repair => pasv.host = pasv.controlHost
            /\ (~repair) => pasv.host = pasv.parsed.host
            /\ pasv.port = pasv.parsed.port

\* C11 witness: the reply named a private host, the control remote is
\* public, and the data socket is being connected to the control remote
C11_Witness ==
    /\ pasv.family = 4 /\ pasv.state = "connecting"
    /\ pasv.parsed.host = <<"1", "9", "2", ".", "1", "6", "8", ".", "0", ".", "1">>
    /\ pasv.host = <<"8", ".", "8", ".", "8", ".", "8">>
    /\ pasv.port = 1028

\* C12: for a reply with six comma-separated integers h1,h2,h3,h4,p1,p2
\* parsePasvResponse returns host h1.h2.h3.h4 and port
\* (p1 & 0xFF) * 256 + (p2 & 0xFF), a port in 0..65535; for a reply without
\* such a group it throws.
C12_PasvSixIntegersOrError ==
    (pasv.family = 4 /\ pasv.state # "reply") =>
        LET f == pasv.fields
        IN  IF Len(f) = 6 /\ \A k \in 1 .. 6 : IsInteger(f[k])
            THEN /\ pasv.parsed =
                       Target(Join(SubSeq(f, 1, 4), "."),
                              (IntValue(f[5]) % 256) * 256 + (IntValue(f[6]) % 256))
                 /\ pasv.parsed.port \in 0 .. 65535
            ELSE ~pasv.parsed.ok

\* C12 for the replies that do hold six integers: host and port are as the
\* claim says
C12_SixIntegersParsed ==
    (pasv.family = 4 /\ pasv.state # "reply"
       /\ Len(pasv.fields) = 6 /\ \A k \in 1 .. 6 : IsInteger(pasv.fields[k]))
        => C12_PasvSixIntegersOrError

\* C13: parseEpsvResponse returns the decimal port between the delimiters
\* and throws when the reply has no such group or the group is not a number;
\* enterPassiveModeIPv6 then connects the data socket to the control
\* channel's remote address on that port.
C13_EpsvPortOrError ==
    (pasv.family = 6 /\ pasv.state # "reply") =>
        LET g == pasv.fields[1]
        IN  /\ IF pasv.shape = "full" /\ IsInteger(g)
               THEN pasv.parsed.ok /\ pasv.parsed.port = IntValue(g)
               ELSE ~pasv.parsed.ok
            /\ (pasv.parsed.ok /\ pasv.controlHost # <<>>)
                  => /\ pasv.state = "connecting"
                     /\ pasv.host = pasv.controlHost
                     /\ pasv.port = pasv.parsed.port

\* C13 for the groups that are decimal numbers other than 0: the port is
\* returned and the data socket is connected to the control remote on it
C13_DecimalGroupConnects ==
    (pasv.family = 6 /\ pasv.state # "reply" /\ pasv.shape = "full"
       /\ IsInteger(pasv.fields[1]) /\ IntValue(pasv.fields[1]) # 0)
        => C13_EpsvPortOrError

(***************************************************************************)
(* Properties of the CONNECT request                                       *)
(***************************************************************************)
\* the claim's request for a host and port
ExpectedRequest(h, port) ==
    <<5, 1, 0>>
        \o (IF h.isIP = 4 THEN <<1>> \o h.addr
            ELSE IF h.isIP = 6 THEN <<4>> \o h.addr
            ELSE <<3, Len(h.text)>> \o [i \in 1 .. Len(h.text) |-> charCodeAt(h.text[i])])
        \o <<port \div 256, port % 256>>

\* C14: the CONNECT request is 05 01 00, then ATYP 01 and the 4 address
\* bytes for an IPv4 literal, ATYP 04 and the 16 address bytes for an IPv6
\* literal, otherwise ATYP 03, a length byte that is the number of host
\* bytes that follow, and the host bytes; then the port, high byte first.
\* Every element of the request is a byte.
C14_ConnectRequestBytes ==
    req.sent =>
        /\ req.request = ExpectedRequest(req.host, req.port)
        /\ \A i \in 1 .. Len(req.request) : req.request[i] \in 0 .. 255
        /\ (req.host.isIP = 4) => Len(req.request) = 10
        /\ (req.host.isIP = 6) => Len(req.request) = 22
        /\ (req.host.isIP = 0) => req.request[5] = Len(req.request) - 7

\* the IPv6 literal ends in a dotted IPv4 address
EmbedsIPv4(h) == h.isIP = 6 /\ \E i \in 1 .. Len(h.text) : h.text[i] = "."

\* C14 for IPv4 literals, IPv6 literals written in hex groups only, and
\* domain names of at most 255 characters
C14_PlainHostsEncoded ==
    (req.sent /\ ~EmbedsIPv4(req.host) /\ Len(req.host.text) <= 255)
        => C14_ConnectRequestBytes

(***************************************************************************)
(* Properties of connectForPassiveTransfer                                 *)
(***************************************************************************)
\* C18: when the first thing that happens to the socket is an 'error' or a
\* 'timeout' (so before it has connected), the promise is rejected,
\* ftp.dataSocket is what it was before the call (the socket of this call
\* is not installed), and after a timeout the socket has been destroyed;
\* the promise never goes from one settled state to another.
C18_FailedConnectLeavesContext ==
    /\ (dconn.first \in {"error", "timeout"})
          => /\ dconn.promise = "rejected"
             /\ dconn.dataSocket = dconn.prior
    /\ (dconn.first = "timeout") => dconn.destroyed
    /\ (dconn.promise = "resolved") => dconn.calls[1] = "resolve"
    /\ (dconn.promise = "rejected") => dconn.calls[1] = "reject"
    /\ (dconn.promise = "pending") => dconn.calls = <<>>

\* C18 for a TCP data socket
C18_TcpSocket ==
    (dconn.kind = "tcp") => C18_FailedConnectLeavesContext

(***************************************************************************)
(* Properties of the size probe and of unanswerable replies                *)
(***************************************************************************)
\* C22: every 3xx reply the transfer cannot answer (any 3xx in an upload,
\* any 3xx but 350 in a download) is handed to onUnexpectedRequest, and no
\* other reply is; the step that handles it closes the context with the
\* fatal error (which reaches the task as a rejection), calls task.resolve
\* not at all, and leaves resolver.response and dataTransferDone as they were.
C22_UnexpectedRequestClosesContext ==
    /\ [](hist.nUnexpected =
             env.n3xx + (IF cfg.type = "upload" THEN env.n350 ELSE 0))
    /\ [][(hist.nUnexpected' # hist.nUnexpected) =>
             /\ ftp'.closed
             /\ task' = Append(task, Reject("EUNEXPECTED"))
             /\ resolver' = resolver]_vars

\* C22 witness: an upload that had recorded its 226 reply received a 3xx
\* reply: the context is closed, the task rejected, the response still 226
C22_Witness ==
    /\ cfg.type = "upload" /\ hist.nUnexpected = 1 /\ ftp.closed
    /\ resolver.response = Response(226)
    /\ task = <<Reject("EUNEXPECTED")>>

\* the step in which checkRemoteSize is called (the probe's client is made)
ProbeStarts == up.probe # "access" /\ up'.probe = "access"

\* C23: the size probe starts only in an upload with useSocksProxy, only at
\* the pass-through's end() after the whole source was counted, and only if
\* no probe was started before; once started it never returns to the state
\* from which it could start again; a download or an upload without the
\* proxy has no probe and no second client.
C23_ProbeOnlyForSocksUploadOnce ==
    /\ []((cfg.type = "download" \/ ~cfg.useSocksProxy)
             => (up.probe = "none" /\ up.client = "none"))
    /\ [][/\ ProbeStarts =>
                /\ cfg.type = "upload" /\ cfg.useSocksProxy
                /\ up.kind = "socks" /\ up.translength = cfg.srcTotal
                /\ up.probe = "none" /\ up.client = "none"
          /\ (up.probe # "none") => (up'.probe # "none")]_vars

\* C23 witness: the probe of a two-byte SOCKS upload has been started
C23_Witness ==
    /\ cfg.useSocksProxy /\ cfg.srcTotal = 2 /\ up.translength = 2
    /\ up.probe = "access" /\ up.client = "open"

\* C24: in a SOCKS upload dataSocket.end() has not been called while the
\* probe has not completed, and has been called exactly once when it has,
\* whatever the probe's outcome.
C24_EndOnceAfterProbe ==
    (up.kind = "socks") =>
        up.endCalls = (IF up.probe = "done" THEN 1 ELSE 0)

\* C24 witness: the probe reported a size other than translength and the
\* data socket was ended once
C24_Witness ==
    /\ up.kind = "socks" /\ up.probe = "done" /\ up.outcome = "reported"
    /\ up.serverFileSize # up.translength /\ up.endCalls = 1

\* C25 (as claimed): remoteSizeAlright is true only if the probe's login
\* and SIZE both succeeded and the reported size equals translength; after
\* a failed probe it is false for every translength.
C25_FlagOnlyAfterProvenSize ==
    up.remoteSizeAlright =>
        (up.outcome = "reported" /\ up.serverFileSize = up.translength)

\* C26 (as claimed): from the start of the probe on (so also when the data
\* socket is ended) translength is the source's length and every counted
\* byte has been written to the data socket.
C26_AllBytesForwardedAtProbe ==
    (up.probe # "none") =>
        (up.translength = cfg.srcTotal /\ up.written = up.translength)

\* the pipeline called back with ECONNRESET while the probe was in flight
ResetDuringProbe == up.cb = "ECONNRESET" /\ up.cbProbe \in {"access", "size"}

\* C27: when the pipeline of a SOCKS upload calls back with ECONNRESET while
\* the probe is in flight, task.reject is called with that error and
\* task.resolve has not been and is not called; from then on no step, the
\* probe's completion included, makes a further resolve or reject call.
C27_ResetDuringProbeRejects ==
    /\ [](ResetDuringProbe =>
             (/\ task # <<>> /\ task[Len(task)] = Reject("ECONNRESET")
              /\ ~Resolved))
    /\ [][ResetDuringProbe => task' = task]_vars

\* C27 witness: after the rejection the probe completed with equal sizes
C27_Witness ==
    /\ ResetDuringProbe /\ up.probe = "done" /\ up.outcome = "reported"
    /\ up.translength = 1 /\ up.serverFileSize = 1 /\ up.remoteSizeAlright
    /\ resolver.response = Response(226)
    /\ task = <<Reject("ECONNRESET")>>

\* C28 (as claimed): the probe's client is closed when the data socket is
\* ended, and no probe client is open once the task has been settled.
C28_ProbeClientClosed ==
    /\ (up.endCalls > 0) => up.client = "closed"
    /\ (task # <<>>) => up.client # "open"

(***************************************************************************)
(* Properties of the tunnel's pending queues                               *)
(***************************************************************************)
\* the calls a flush of these queues makes, in order
FlushedWrites(q) == [i \in 1 .. Len(q) |-> [k |-> "write", v |-> q[i]]]

FlushedPipes(q) == [i \in 1 .. Len(q) |-> [k |-> "pipe", v |-> <<q[i]>>]]

\* the step in which the tunnel becomes Established
Establishes == ~sock.connected /\ sock'.connected

\* C30: the tunnel becomes Established at most once and never leaves that
\* state, and 'connect' has been emitted once exactly when it is
\* Established.  Before, every write and every pipe of the consumer is in
\* its queue, in call order, and none has reached realSocket.  The
\* establishing step calls write for every queued write in queue order, then
\* pipe for every queued pipe in queue order, then emits 'connect'; the
\* writes are then on realSocket in that order (unless it was ended, see C7)
\* and the sinks are attached in that order.  From then on both queues are
\* empty, and a pipe or a write of the consumer goes to realSocket at once.
C30_QueuesDrainedOnceInOrder ==
    /\ [](obs.connects = (IF sock.connected THEN 1 ELSE 0))
    /\ [](IF sock.connected
          THEN sock.unSent = <<>> /\ sock.unPiped = <<>>
          ELSE /\ sock.unSent = [i \in 1 .. Len(obs.wroteBefore) |->
                                    <<obs.wroteBefore[i]>>]
               /\ sock.unPiped = [i \in 1 .. obs.piped |-> i]
               /\ sock.rpiped = <<>> /\ obs.flushed = <<>>
               /\ \A i \in 1 .. Len(sock.out) : sock.out[i].k # "data")
    /\ [][sock.connected => sock'.connected]_vars
    /\ [][Establishes =>
             /\ obs'.flushed = FlushedWrites(sock.unSent)
                                  \o FlushedPipes(sock.unPiped)
                                  \o <<[k |-> "connect", v |-> <<>>]>>
             /\ sock'.rpiped = sock.unPiped
             /\ (~sock.rended) =>
                   sock'.out = sock.out \o
                       [i \in 1 .. Len(sock.unSent) |->
                           [k |-> "data", bytes |-> sock.unSent[i]]]]_vars
    /\ [][(sock.connected /\ obs'.piped # obs.piped) =>
             sock'.rpiped = Append(sock.rpiped, obs'.piped)]_vars
    /\ [][(sock.connected /\ ~sock.rended
              /\ obs'.wroteAfter # obs.wroteAfter) =>
             /\ Len(sock'.out) = Len(sock.out) + 1
             /\ sock'.out[Len(sock'.out)].k = "data"]_vars

\* C30 witness: two writes and two pipes were queued and then flushed
C30_Witness ==
    /\ sock.connected /\ ~sock.rended
    /\ obs.flushed = <<[k |-> "write", v |-> <<WriteByte(1)>>],
                       [k |-> "write", v |-> <<WriteByte(2)>>],
                       [k |-> "pipe", v |-> <<1>>],
                       [k |-> "pipe", v |-> <<2>>],
                       [k |-> "connect", v |-> <<>>]>>
    /\ sock.rpiped = <<1, 2>>
    /\ sock.unSent = <<>> /\ sock.unPiped = <<>>

(***************************************************************************)
(* Properties of two transfers on one context                              *)
(***************************************************************************)
\* the pipeline of the earlier, settled transfer calls back
LateEvent == prev.active /\ prev'.up.pipe # prev.up.pipe

\* C29 (as claimed): when the pipeline of the earlier transfer calls back
\* after the later transfer has installed its data socket, ftp.dataSocket
\* and the control socket's timeout are left as they are and the later
\* transfer's task is not settled.
C29_LateEventsLeaveLaterTransfer ==
    [][LateEvent =>
          /\ ftp'.dataSocket = ftp.dataSocket
          /\ ftp'.socketTimeout = ftp.socketTimeout
          /\ task' = task]_vars

(***************************************************************************)
(* Termination of an upload through the proxy                              *)
(***************************************************************************)
\* the source has ended and was counted, the probe has finished, and the
\* control channel has delivered the final reply (a 2xx reply is recorded;
\* an error or an unanswerable reply has settled the task at once)
C21_AllReported ==
    /\ up.kind = "socks" /\ up.translength = cfg.srcTotal
    /\ up.probe = "done"
    /\ (hist.nControlDone > 0 \/ task # <<>>)

\* C21: in an upload through the proxy, whenever the source has ended, the
\* probe has finished with any result and the control channel has delivered
\* its final reply, task.resolve or task.reject is eventually called.
C21_SocksUploadSettles == C21_AllReported ~> (task # <<>>)

\* C21 witness: the 226 reply was recorded and the probe had reported a
\* size other than translength when the pipeline called back; the task is
\* settled
C21_Witness ==
    /\ C21_AllReported /\ hist.nControlDone = 1 /\ hist.nError = 0
    /\ up.outcome = "reported" /\ up.serverFileSize # up.translength
    /\ up.cbProbe = "done" /\ task # <<>>

(***************************************************************************)
(* Properties of the negotiation: chunks, byte order, events, connect()    *)
(***************************************************************************)
\* the CONNECT reply that grants the request
GrantedReply == <<5, 0, 0>> \o ReplyTail

\* a conforming proxy has sent the greeting reply 05 00 and then the
\* granting CONNECT reply, realSocket has delivered all of it (in chunks of
\* any size), and the consumer has not ended the tunnel
ValidRepliesDelivered ==
    /\ Len(net.sent) >= 2
    /\ net.sent[1] = <<5, 0>> /\ net.sent[2] = GrantedReply
    /\ net.causal /\ net.inflight = <<>>
    /\ ~obs.endCalled

\* C33 (as claimed): when the proxy has sent 05 00 and then a valid CONNECT
\* reply, the tunnel is Established and has emitted no error, however
\* realSocket cut those bytes into 'data' chunks.
C33_AnyChunkingEstablishes ==
    ValidRepliesDelivered => (sock.connected /\ obs.errors = <<>>)

\* of C33, what holds: with the greeting reply in one chunk of its own and
\* the first three bytes of the CONNECT reply in one chunk, the tunnel is
\* Established without an error
C33_WholeChunksEstablish ==
    (/\ ValidRepliesDelivered
     /\ Len(obs.rx) >= 2
     /\ obs.rx[1].bytes = <<5, 0>>
     /\ Len(obs.rx[2].bytes) >= 3)
        => (sock.connected /\ obs.errors = <<>>)

\* greeting, CONNECT request, payload
Rank(kind) == IF kind = "greeting" THEN 1 ELSE IF kind = "connect" THEN 2 ELSE 3

\* the items of this kind written to realSocket
Items(kind) == { i \in 1 .. Len(sock.out) : sock.out[i].k = kind }

\* C32: what the tunnel has written to realSocket is in the order greeting,
\* CONNECT request, payload, with at most one greeting (05 01 00) and at
\* most one CONNECT request.  The greeting is written in the step in which
\* the TCP connection to the proxy opens (and not before); the CONNECT
\* request has been written only if the first chunk received was the
\* greeting reply 05 00; no payload is written while the tunnel is not
\* Established; and after a clean negotiation payload follows a CONNECT
\* request.
C32_GreetingConnectPayload ==
    /\ [](/\ \A i, j \in 1 .. Len(sock.out) :
                (i < j) => Rank(sock.out[i].k) <= Rank(sock.out[j].k)
          /\ Cardinality(Items("greeting")) <= 1
          /\ Cardinality(Items("connect")) <= 1
          /\ \A i \in Items("greeting") : sock.out[i].bytes = Greeting
          /\ Sent("greeting") => sock.rstate = "open"
          /\ Sent("connect") =>
                (/\ Sent("greeting") /\ obs.rx # <<>>
                 /\ obs.rx[1].bytes = <<5, 0>>)
          /\ (~sock.connected) => Items("data") = {}
          /\ (CleanNegotiation /\ Items("data") # {}) => Sent("connect"))
    /\ [][(sock.rstate # "open" /\ sock'.rstate = "open" /\ ~sock.rended) =>
             (sock.out = <<>> /\ Len(sock'.out) = 1
              /\ sock'.out[1].k = "greeting")]_vars

\* C32 witness: the greeting, the CONNECT request, a write that had been
\* queued and a write made after Established have been written, in that order
C32_Witness ==
    /\ sock.connected /\ CleanNegotiation
    /\ Len(sock.out) = 4
    /\ sock.out[1].k = "greeting" /\ sock.out[2].k = "connect"
    /\ sock.out[3].k = "data" /\ sock.out[4].k = "data"
    /\ Len(obs.wroteBefore) = 1 /\ Len(obs.wroteAfter) = 1

\* C31: before the tunnel is Established (connected is not set) the consumer
\* has been given no 'data', 'readable', 'drain' or 'connect' event, every
\* event was emitted with connected set, and every read() made before
\* Established returned null, whatever realSocket received or emitted.
C31_SilentBeforeEstablished ==
    /\ (~sock.connected) =>
           (obs.events = {} /\ obs.data = <<>> /\ obs.connects = 0)
    /\ \A ev \in obs.events : ev.est
    /\ \A r \in obs.reads : (~r.est) => r.ret = "null"

\* realSocket has emitted 'data', 'readable' and 'drain' and the consumer
\* has called read(), all before Established
C31_Witness ==
    /\ ~sock.connected
    /\ obs.early = {"readable", "drain"}
    /\ obs.rx # <<>>
    /\ [est |-> FALSE, ret |-> "null"] \in obs.reads
    /\ obs.events = {}

\* C32 when connect() is called again during the handshake (C34) and the
\* connection to the proxy is opened anew: the greeting is written once on
\* every connection that opens, as the first item of that connection, the
\* CONNECT request still at most once and after a valid greeting reply,
\* and still no payload before Established.
C32_OnEveryConnection ==
    /\ [](/\ Cardinality(Items("greeting")) <= sock.rconnects
          /\ Cardinality(Items("connect")) <= 1
          /\ \A i \in Items("greeting") : sock.out[i].bytes = Greeting
          /\ (sock.out # <<>>) => sock.out[1].k = "greeting"
          /\ Sent("connect") =>
                (obs.rx # <<>> /\ obs.rx[1].bytes = <<5, 0>>)
          /\ (~sock.connected) => Items("data") = {})
    /\ [][/\ (sock.rstate # "open" /\ sock'.rstate = "open") =>
                sock'.out = Append(sock.out, [k |-> "greeting", bytes |-> Greeting])
          /\ (Cardinality(Items("greeting"))' > Cardinality(Items("greeting"))) =>
                (sock.rstate = "connecting" /\ sock'.rstate = "open")]_vars

\* the connect() calls made after the first all found the one before them
\* in progress or Established
AllInProgress == \A r \in obs.recalls : r.phase # "over"

\* C34: a connect() call made while the one before it is in progress (its
\* TCP connection not open yet, or the SOCKS handshake running) or after
\* Established throws, and such calls start no second connection and no
\* second negotiation.
C34_ConnectInProgressThrows ==
    /\ \A r \in obs.recalls : (r.phase # "over") => r.threw
    /\ AllInProgress =>
           (sock.rconnects <= 1 /\ Cardinality(Items("greeting")) <= 1)

\* the part of C34 the guards of connect give: a call made while the TCP
\* connection is being opened, or after Established, throws
C34_ThrowsWhileConnectingOrEstablished ==
    \A r \in obs.recalls : (r.phase \in {"tcp", "established"}) => r.threw
====
